---- MODULE Spec2Model ----
(***************************************************************************)
(* A model of miq_version: the Version type (parsing, equality, ordering,  *)
(* series membership, stream lookup, the LOWEST / LATEST singletons) and   *)
(* TemplateName.parse_template with futurecheck.                           *)
(*                                                                         *)
(* A Python str is modelled as a sequence of one-character strings, so     *)
(* that tokenizing, int() and float() are computed and not assumed.        *)
(* Python 3 semantics are modelled: comparing an int with a str by < is a  *)
(* TypeError, and != is derived from ==.                                   *)
(***************************************************************************)
EXTENDS Integers, Sequences, FiniteSets, TLC

VARIABLES
    pc,        \* position in the module's top-level code (lines 214-215), then "ready"
    _lowest,   \* class attribute Version._lowest (Unset until lowest() first runs)
    _latest,   \* class attribute Version._latest (Unset until latest() first runs)
    LOWEST,    \* module global LOWEST (line 214)
    LATEST,    \* module global LATEST (line 215)
    nobj,      \* number of Version objects constructed so far (the next object id - 1)
    made,      \* how many times line 101 / line 93 constructed a sentinel
    x, y, z,   \* the caller's values: the arguments of the operation under test
    v,         \* the Version objects the caller constructed from x, y and z
    today,     \* the value date.today() returns
    res        \* the last operation and what it returned

vars == <<pc, _lowest, _latest, LOWEST, LATEST, nobj, made, x, y, z, v, today, res>>

(***************************************************************************)
(* Characters and strings                                                  *)
(***************************************************************************)
Digit == {"0", "1", "2", "3", "4", "5", "6", "7", "8", "9"}

Lower == {"a", "b", "c", "d", "e", "f", "g", "h", "i", "j", "k", "l", "m",
          "n", "o", "p", "q", "r", "s", "t", "u", "v", "w", "x", "y", "z"}

Upper == {"A", "B", "C", "D", "E", "F", "G", "H", "I", "J", "K", "L", "M",
          "N", "O", "P", "Q", "R", "S", "T", "U", "V", "W", "X", "Y", "Z"}

Space == {" "}

\* the regex class \w
WordChar == Digit \cup Lower \cup Upper \cup {"_"}

DigitSeq == <<"0", "1", "2", "3", "4", "5", "6", "7", "8", "9">>

LowerSeq == <<"a", "b", "c", "d", "e", "f", "g", "h", "i", "j", "k", "l", "m",
              "n", "o", "p", "q", "r", "s", "t", "u", "v", "w", "x", "y", "z">>

DigitVal(c) == (CHOOSE i \in 1..10 : DigitSeq[i] = c) - 1

\* code point order of lowercase letters
LowerOrd(c) == CHOOSE i \in 1..26 : LowerSeq[i] = c

Max(S) == CHOOSE m \in S : \A n \in S : n <= m

Min(S) == CHOOSE m \in S : \A n \in S : m <= n

\* s[i..j] as Python's s[i-1:j]
Slice(s, i, j) == IF i > j THEN <<>> ELSE SubSeq(s, i, j)

RECURSIVE RunEnd(_, _, _)
\* the last index of the longest run of characters of C that starts at i (i-1: none)
RunEnd(s, i, C) ==
    IF i <= Len(s) /\ s[i] \in C THEN RunEnd(s, i + 1, C) ELSE i - 1

\* s[i..] starts with p
StartsAt(s, i, p) ==
    /\ i >= 1
    /\ i + Len(p) - 1 <= Len(s)
    /\ \A k \in 1..Len(p) : s[i + k - 1] = p[k]

\* Python's  p in s  for strings
Contains(s, p) == \E i \in 1..(Len(s) + 1) : StartsAt(s, i, p)

\* Python's str.strip()
strip(s) ==
    IF \A i \in 1..Len(s) : s[i] \in Space THEN <<>>
    ELSE SubSeq(s, Min({i \in 1..Len(s) : s[i] \notin Space}),
                   Max({i \in 1..Len(s) : s[i] \notin Space}))

RECURSIVE int(_)
\* Python's int() of a run of digits
int(s) ==
    IF s = <<>> THEN 0
    ELSE 10 * int(SubSeq(s, 1, Len(s) - 1)) + DigitVal(s[Len(s)])

RECURSIVE Pow10(_)
Pow10(k) == IF k = 0 THEN 1 ELSE 10 * Pow10(k - 1)

RECURSIVE StripZeros(_, _)
\* n / 10^k in lowest decimal terms
StripZeros(n, k) ==
    IF k > 0 /\ n % 10 = 0 THEN StripZeros(n \div 10, k - 1)
    ELSE [n |-> n, d |-> Pow10(k)]

\* float() of the digits whole and, after the point, frac
FloatOf(whole, frac) == StripZeros(int(whole \o frac), Len(frac))

\* Python's float() of  \d+(\.\d+)? , as the exact decimal fraction n / d
float(s) ==
    FloatOf(SubSeq(s, 1, RunEnd(s, 1, Digit)), Slice(s, RunEnd(s, 1, Digit) + 2, Len(s)))

FloatLt(a, b) == a.n * b.d < b.n * a.d

(***************************************************************************)
(* Python values                                                           *)
(***************************************************************************)
NoFields == [s |-> <<>>, b |-> FALSE, exc |-> "", oid |-> 0,
             vstring |-> <<>>, version |-> <<>>, suffix |-> <<>>]

None == NoFields @@ [k |-> "None"]

Str(s) == [NoFields EXCEPT !.s = s] @@ [k |-> "str"]

Bool(b) == [NoFields EXCEPT !.b = b] @@ [k |-> "bool"]

Raise(e) == [NoFields EXCEPT !.exc = e] @@ [k |-> "raise"]

True == Bool(TRUE)

False == Bool(FALSE)

\* a name that is not bound yet (reading it raises AttributeError / NameError)
Unset == NoFields @@ [k |-> "unset"]

\* self.suffix = None; a suffix that is present is never the empty list
NoSuffix == <<>>

\* a component of Version.version: an int or a str of lowercase letters
IntC(n) == [t |-> "int", n |-> n, w |-> <<>>]

StrC(w) == [t |-> "str", n |-> 0, w |-> w]

\* Python's str(obj); Version.__str__ gives the vstring
str(obj) ==
    IF obj.k = "None" THEN <<"N","o","n","e">>
    ELSE IF obj.k = "Version" THEN obj.vstring
    ELSE obj.s

(***************************************************************************)
(* Version.parse                                                           *)
(***************************************************************************)
\* the names in alphabetical order, not in order of maturity
SUFFIXES_alphabetical == << <<"a","l","p","h","a">>, <<"b","e","t","a">>,
                            <<"n","i","g","h","t","l","y">>, <<"p","r","e">>, <<"r","c">> >>

\* SUFFIXES: the known pre-release names, lowest first
SUFFIXES == << <<"n","i","g","h","t","l","y">>, <<"p","r","e">>,
               <<"a","l","p","h","a">>, <<"b","e","t","a">>, <<"r","c">> >>

\* the last index of (?:\d+(?:\.\d+)?)? after a suffix name that ends at a, where
\* the run of digits after it ends at b
SuffixNumberEnd(s, a, b) ==
    IF b > a /\ b + 1 < Len(s) /\ s[b + 1] = "." /\ s[b + 2] \in Digit
    THEN RunEnd(s, b + 2, Digit)
    ELSE b

\* the last index of one  -{suff}(?:\d+(?:\.\d+)?)?  that starts at i, 0 when none does
SuffixItemEnd(s, i) ==
    IF ~(i <= Len(s) /\ s[i] = "-" /\ \E n \in 1..Len(SUFFIXES) : StartsAt(s, i + 1, SUFFIXES[n]))
    THEN 0
    ELSE SuffixNumberEnd(
            s,
            i + Len(SUFFIXES[CHOOSE n \in 1..Len(SUFFIXES) : StartsAt(s, i + 1, SUFFIXES[n])]),
            RunEnd(s,
                   i + Len(SUFFIXES[CHOOSE n \in 1..Len(SUFFIXES) : StartsAt(s, i + 1, SUFFIXES[n])]) + 1,
                   Digit))

RECURSIVE SuffixBlock(_, _)
\* (?:SUFFIXES_STR)+$ matches at i: s[i..] is one or more suffix items up to the end
SuffixBlock(s, i) ==
    /\ SuffixItemEnd(s, i) # 0
    /\ (SuffixItemEnd(s, i) = Len(s) \/ SuffixBlock(s, SuffixItemEnd(s, i) + 1))

RECURSIVE findall(_, _)
\* the matches of component_re from index i on, where the \s* at i ends before j
findall_at(s, i, j) ==
    IF j > Len(s) THEN <<>>
    ELSE IF s[j] \in Digit
         THEN <<SubSeq(s, j, RunEnd(s, j, Digit))>> \o findall(s, RunEnd(s, j, Digit) + 1)
    ELSE IF s[j] \in Lower
         THEN <<SubSeq(s, j, RunEnd(s, j, Lower))>> \o findall(s, RunEnd(s, j, Lower) + 1)
    ELSE IF s[j] = "." THEN << <<".">> >> \o findall(s, j + 1)
    ELSE IF s[j] = "-" /\ SuffixBlock(s, j) THEN <<SubSeq(s, j, Len(s))>>
    ELSE findall(s, i + 1)

\* component_re.findall(vstring), scanning from index i
findall(s, i) ==
    IF i > Len(s) THEN <<>> ELSE findall_at(s, i, RunEnd(s, i, Space) + 1)

RECURSIVE split(_, _)
\* Python's s.split(sep) for a one-character separator
split(s, sep) ==
    IF \A i \in 1..Len(s) : s[i] # sep THEN <<s>>
    ELSE <<Slice(s, 1, Min({i \in 1..Len(s) : s[i] = sep}) - 1)>>
         \o split(Slice(s, Min({i \in 1..Len(s) : s[i] = sep}) + 1, Len(s)), sep)

s_master == <<"m","a","s","t","e","r">>

s_upstream == <<"u","p","s","t","r","e","a","m">>

\* constants.UPSTREAM_DOWNSTREAM_MAPPING (Version does not import it)
UPSTREAM_DOWNSTREAM_MAPPING ==
    << [name |-> <<"j","a","n","s","a">>, version |-> <<"5",".","1","2">>],
       [name |-> <<"i","v","a","n","c","h","u","c","k">>, version |-> <<"5",".","1","1">>],
       [name |-> <<"h","a","m","m","e","r">>, version |-> <<"5",".","1","0">>],
       [name |-> <<"g","a","p","r","i","n","d","a","s","h","v","i","l","i">>, version |-> <<"5",".","9">>],
       [name |-> <<"f","i","n","e">>, version |-> <<"5",".","8">>],
       [name |-> <<"e","u","w","e">>, version |-> <<"5",".","7">>] >>

\* lines 42-47: the darga releases
darga(vstring) ==
    IF vstring = <<"d","a","r","g","a","-","3">> THEN <<"5", ".", "6", ".", "1">>
    ELSE IF vstring = <<"d","a","r","g","a","-","4",".","1">> THEN <<"5", ".", "6", ".", "2">>
    ELSE IF vstring = <<"d","a","r","g","a","-","5">> THEN <<"5", ".", "6", ".", "3">>
    ELSE vstring

\* lines 35-47: the aliases of master, then the darga releases
canonical(vstring) ==
    darga(IF \/ vstring \in {s_master, <<"l","a","t","e","s","t">>, s_upstream}
             \/ Contains(vstring, <<"f","i","n","e">>)
             \/ Contains(vstring, <<"e","u","w","e">>)
             \/ Contains(vstring, <<"g","a","p","r","i","n","d","a","s","h","v","i","l","i">>)
          THEN s_master ELSE vstring)

\* lines 57-61: int(components[i]) where it does not raise ValueError
component(tok) == IF tok[1] \in Digit THEN IntC(int(tok)) ELSE StrC(tok)

\* lines 52-64: the object, from the canonical string and its filtered tokens
parse_components(vstring, components, oid) ==
    IF Len(components) > 0 /\ components[Len(components)][1] = "-"
    THEN [NoFields EXCEPT
             !.oid = oid,
             !.vstring = vstring,
             !.version = [i \in 1..(Len(components) - 1) |-> component(components[i])],
             !.suffix = split(Slice(components[Len(components)], 2,
                                    Len(components[Len(components)])), "-")]
         @@ [k |-> "Version"]
    ELSE [NoFields EXCEPT
             !.oid = oid,
             !.vstring = vstring,
             !.version = [i \in 1..Len(components) |-> component(components[i])],
             !.suffix = NoSuffix]
         @@ [k |-> "Version"]

\* lines 49-50: tokenize the canonical string and drop the dots
parse_canonical(vstring, oid) ==
    parse_components(vstring,
                     SelectSeq(findall(vstring, 1), LAMBDA t : t # <<>> /\ t # <<".">>),
                     oid)

\* Version.parse(vstring) on a fresh object with identity oid: the object, or the
\* exception raised
parse(arg, oid) ==
    IF arg.k = "None" THEN Raise("ValueError")
    ELSE parse_canonical(canonical(IF str(arg) # <<>> THEN strip(str(arg)) ELSE str(arg)),
                         oid)

(***************************************************************************)
(* Version.normalized_suffix, __eq__, __lt__ and the derived comparisons   *)
(***************************************************************************)
Chars == Digit \cup Lower \cup Upper \cup {" ", ".", "-", "_"}

NonDigit == Chars \ Digit

\* 0-based SUFFIXES.index(name), -1 where Python raises ValueError
SuffixIndex(name) ==
    IF \E n \in 1..Len(SUFFIXES) : SUFFIXES[n] = name
    THEN (CHOOSE n \in 1..Len(SUFFIXES) : SUFFIXES[n] = name) - 1
    ELSE -1

\* (\d+(?:\.\d+)?)?$ matches rest
NumberOrEmpty(rest) ==
    \/ rest = <<>>
    \/ /\ RunEnd(rest, 1, Digit) >= 1
       /\ \/ RunEnd(rest, 1, Digit) = Len(rest)
          \/ /\ RunEnd(rest, 1, Digit) + 1 < Len(rest)
             /\ rest[RunEnd(rest, 1, Digit) + 1] = "."
             /\ RunEnd(rest, RunEnd(rest, 1, Digit) + 2, Digit) = Len(rest)

\* suffix_item_re = ^([^0-9]+)(\d+(?:\.\d+)?)?$ matches item
ItemMatches(item) ==
    /\ RunEnd(item, 1, NonDigit) >= 1
    /\ NumberOrEmpty(Slice(item, RunEnd(item, 1, NonDigit) + 1, Len(item)))

\* a missing number taken as lower than every number, not as 0
numberized_groups_unnumbered(suff_t, suff_ver) ==
    [rank |-> SuffixIndex(suff_t),
     num |-> IF Len(suff_ver) = 0 THEN [n |-> -1, d |-> 1] ELSE float(suff_ver)]

\* lines 80-85: the (rank, number) pair of the groups suff_t, suff_ver
numberized_groups(suff_t, suff_ver) ==
    [rank |-> SuffixIndex(suff_t),
     num |-> IF Len(suff_ver) = 0 THEN [n |-> 0, d |-> 1] ELSE float(suff_ver)]

\* lines 79-85 for one item
numberized(item) ==
    numberized_groups(SubSeq(item, 1, RunEnd(item, 1, NonDigit)),
                      Slice(item, RunEnd(item, 1, NonDigit) + 1, Len(item)))

\* Version.normalized_suffix: [exc, list]; exc is "" when nothing is raised
normalized_suffix(self) ==
    IF self.suffix = NoSuffix THEN [exc |-> "", list |-> <<>>]
    ELSE IF \E i \in 1..Len(self.suffix) : ~ItemMatches(self.suffix[i])
         THEN [exc |-> "AttributeError", list |-> <<>>]
    ELSE IF \E i \in 1..Len(self.suffix) : numberized(self.suffix[i]).rank = -1
         THEN [exc |-> "ValueError", list |-> <<>>]
    ELSE [exc |-> "", list |-> [i \in 1..Len(self.suffix) |-> numberized(self.suffix[i])]]

\* the indices at which two lists differ
Differ(a, b) == {i \in 1..Min({Len(a), Len(b)}) : a[i] # b[i]}

\* Python's < on two (rank, number) tuples
PairLt(p, q) == p.rank < q.rank \/ (p.rank = q.rank /\ FloatLt(p.num, q.num))

\* Python's < on two lists of (rank, number) tuples
SuffixListLt(a, b) ==
    IF Differ(a, b) = {} THEN Len(a) < Len(b)
    ELSE PairLt(a[Min(Differ(a, b))], b[Min(Differ(a, b))])

\* Python's < on two str of lowercase letters
WordLt(a, b) ==
    IF Differ(a, b) = {} THEN Len(a) < Len(b)
    ELSE LowerOrd(a[Min(Differ(a, b))]) < LowerOrd(b[Min(Differ(a, b))])

\* Python 2's < on two components: a number is below a word
ComponentLt_coerced(p, q) ==
    IF p.t # q.t THEN Bool(p.t = "int")
    ELSE IF p.t = "int" THEN Bool(p.n < q.n)
    ELSE Bool(WordLt(p.w, q.w))

\* Python 3's < on two components
ComponentLt(p, q) ==
    IF p.t # q.t THEN Raise("TypeError")
    ELSE IF p.t = "int" THEN Bool(p.n < q.n)
    ELSE Bool(WordLt(p.w, q.w))

\* Python 3's < on two lists of components (Version.version): a bool or TypeError
VersionListLt(a, b) ==
    IF Differ(a, b) = {} THEN Bool(Len(a) < Len(b))
    ELSE ComponentLt(a[Min(Differ(a, b))], b[Min(Differ(a, b))])

\* Version(other) for an operand that is no Version; the temporary has no identity
\* that the caller can observe (oid 0)
Coerce(other) == IF other.k = "Version" THEN other ELSE parse(other, 0)

\* lines 144-147, for two Versions
eq_versions(self, other) ==
    IF self.version # other.version THEN False
    ELSE IF normalized_suffix(self).exc # "" \/ normalized_suffix(other).exc # "" THEN False
    ELSE Bool(normalized_suffix(self).list = normalized_suffix(other).list)

\* __eq__ without the except of lines 146-147: the exception of Version(other)
\* leaves __eq__
eq_coerced_strict(self, o) == IF o.k = "raise" THEN o ELSE eq_versions(self, o)

\* lines 141-143 and 146-147: other after Version(other), or the exception
eq_coerced(self, o) == IF o.k = "raise" THEN False ELSE eq_versions(self, o)

\* lines 93-94: the sentinel just constructed is cached and returned
latest_new(new) ==
    [ret |-> new, cache |-> new, nobj |-> nobj + 1,
     made |-> [made EXCEPT !.latest = @ + 1]]

\* latest() without the cache test of line 92
latest_uncached == latest_new(parse(Str(<<"l","a","t","e","s","t">>), nobj + 1))

\* what Version.latest() returns, and the class state it leaves
latest ==
    IF _latest.k # "unset"
    THEN [ret |-> _latest, cache |-> _latest, nobj |-> nobj, made |-> made]
    ELSE latest_new(parse(Str(<<"l","a","t","e","s","t">>), nobj + 1))

\* lines 101-102: the sentinel just constructed is cached and returned
lowest_new(new) ==
    [ret |-> new, cache |-> new, nobj |-> nobj + 1,
     made |-> [made EXCEPT !.lowest = @ + 1]]

\* what Version.lowest() returns, and the class state it leaves
lowest ==
    IF _lowest.k # "unset"
    THEN [ret |-> _lowest, cache |-> _lowest, nobj |-> nobj, made |-> made]
    ELSE lowest_new(parse(Str(<<"l","o","w","e","s","t">>), nobj + 1))

\* line 138, with the exception normalized_suffix may raise
suffix_lt(a, b) ==
    IF a.exc # "" THEN Raise(a.exc)
    ELSE IF b.exc # "" THEN Raise(b.exc)
    ELSE Bool(SuffixListLt(a.list, b.list))

\* __lt__ without the sentinel tests of lines 119-122
lt_versions_components_first(self, other, latest_, lowest_) ==
    IF eq_versions(self, other).b THEN False
    ELSE IF self.version # other.version THEN VersionListLt(self.version, other.version)
    ELSE IF self.suffix = NoSuffix /\ other.suffix = NoSuffix THEN False
    ELSE IF self.suffix = NoSuffix THEN False
    ELSE IF other.suffix = NoSuffix THEN True
    ELSE suffix_lt(normalized_suffix(self), normalized_suffix(other))

\* __lt__ with line 132 returning True: a release older than its pre-releases too
lt_versions_release_older(self, other, latest_, lowest_) ==
    IF eq_versions(self, other).b THEN False
    ELSE IF eq_versions(self, latest_).b \/ eq_versions(other, lowest_).b THEN False
    ELSE IF eq_versions(self, lowest_).b \/ eq_versions(other, latest_).b THEN True
    ELSE IF self.version # other.version THEN VersionListLt(self.version, other.version)
    ELSE IF self.suffix = NoSuffix /\ other.suffix = NoSuffix THEN False
    ELSE IF self.suffix = NoSuffix THEN True
    ELSE IF other.suffix = NoSuffix THEN True
    ELSE suffix_lt(normalized_suffix(self), normalized_suffix(other))

\* lines 117-138, for two Versions and the two sentinels (both sentinels exist
\* once the module is imported, so latest() and lowest() change nothing here)
lt_versions(self, other, latest_, lowest_) ==
    IF eq_versions(self, other).b THEN False
    ELSE IF eq_versions(self, latest_).b \/ eq_versions(other, lowest_).b THEN False
    ELSE IF eq_versions(self, lowest_).b \/ eq_versions(other, latest_).b THEN True
    ELSE IF self.version # other.version THEN VersionListLt(self.version, other.version)
    ELSE IF self.suffix = NoSuffix /\ other.suffix = NoSuffix THEN False
    ELSE IF self.suffix = NoSuffix THEN False
    ELSE IF other.suffix = NoSuffix THEN True
    ELSE suffix_lt(normalized_suffix(self), normalized_suffix(other))

\* lines 111-115: other after Version(other), or ValueError
lt_coerced(self, o) ==
    IF o.k = "raise" THEN Raise("ValueError")
    ELSE lt_versions(self, o, latest.ret, lowest.ret)

\* functools.total_ordering: __gt__ is  not (self < other) and self != other
gt_from_lt(op_result, eq) ==
    IF op_result.k = "raise" THEN op_result ELSE Bool(~op_result.b /\ ~eq.b)

(***************************************************************************)
(* get_version, series membership                                          *)
(***************************************************************************)
\* lines 209-211, for a string
get_version_str(s) ==
    IF StartsAt(s, 1, s_master) THEN latest
    ELSE [ret |-> parse(Str(s), nobj + 1), cache |-> _latest,
          nobj |-> nobj + 1, made |-> made]

\* get_version(obj): what it returns, and the class state it leaves
get_version(obj) ==
    IF obj.k = "Version"
    THEN [ret |-> obj, cache |-> _latest, nobj |-> nobj, made |-> made]
    ELSE get_version_str(IF obj.k # "str" THEN str(obj) ELSE obj.s)

\* self in {self.lowest(), self.latest()}: a set looks a value up by its hash,
\* hash(self.vstring), and then by identity or ==. Two different strings are
\* taken to hash differently.
InSentinelSet(self) ==
    \E s \in {lowest.ret, latest.ret} :
        /\ self.vstring = s.vstring
        /\ (self.oid = s.oid \/ eq_versions(s, self).b)

\* is_in_series without the sentinel test of lines 176-180
in_series_of_prefix_only(self, series) ==
    Bool(series.version =
         Slice(self.version, 1, Min({Len(series.version), Len(self.version)})))

\* lines 176-181, for a series that is a Version
in_series_of(self, series) ==
    IF InSentinelSet(self)
    THEN (IF eq_versions(series, self).b THEN True ELSE False)
    ELSE Bool(series.version =
              Slice(self.version, 1, Min({Len(series.version), Len(self.version)})))

\* Version.is_in_series
is_in_series(self, series) ==
    in_series_of(self, IF series.k # "Version" THEN get_version(series).ret ELSE series)

\* lines 159-162: Version(ver), or the exception
contains_parsed(self, candidate) ==
    IF candidate.k = "raise" THEN False ELSE in_series_of(candidate, self)

\* Version.__contains__
__contains__(self, ver) == contains_parsed(self, parse(ver, 0))

(***************************************************************************)
(* The stream table                                                        *)
(***************************************************************************)
\* a template regex: its family (the shape shared by the streams) and the
\* stream's text in it
Regex(family, text) == [family |-> family, text |-> text]

\* the four regexes of streams 5.2 - 5.5 and 5.10
downstream_regex(nn) ==
    <<Regex("cfme_5digit", nn), Regex("cfme_noyear", nn),
      Regex("docker", nn), Regex("sprout_downstream", nn)>>

\* the five regexes of streams 5.6 - 5.9
downstream_nightly_regex(nn) ==
    <<Regex("cfme_5digit", nn), Regex("cfme_nightly", nn), Regex("cfme_noyear", nn),
      Regex("docker", nn), Regex("sprout_downstream", nn)>>

\* the three regexes of a named upstream release
upstream_regex(name) ==
    <<Regex("miq", name), Regex("miq_stable", name), Regex("sprout_upstream", name)>>

\* the three regexes of the LATEST entry
latest_regex ==
    <<Regex("miq_nightly_date", <<>>), Regex("miq_date", <<>>),
      Regex("sprout_upstream_latest", <<>>)>>

\* one item of the dict: the key and the SPTuple
Entry(key, stream_, product_version_, template_regex) ==
    [key |-> key, stream |-> stream_, product_version |-> product_version_,
     template_regex |-> template_regex]

\* the dict, in insertion order (the order .items() and .values() give)
version_stream_product_mapping ==
    <<
       Entry(Str(<<"5",".","2">>), <<"d","o","w","n","s","t","r","e","a","m","-","5","2","z">>, <<"3",".","0">>,
             downstream_regex(<<"5","2">>)),
       Entry(Str(<<"5",".","3">>), <<"d","o","w","n","s","t","r","e","a","m","-","5","3","z">>, <<"3",".","1">>,
             downstream_regex(<<"5","3">>)),
       Entry(Str(<<"5",".","4">>), <<"d","o","w","n","s","t","r","e","a","m","-","5","4","z">>, <<"3",".","2">>,
             downstream_regex(<<"5","4">>)),
       Entry(Str(<<"5",".","5">>), <<"d","o","w","n","s","t","r","e","a","m","-","5","5","z">>, <<"4",".","0">>,
             downstream_regex(<<"5","5">>)),
       Entry(Str(<<"5",".","6">>), <<"d","o","w","n","s","t","r","e","a","m","-","5","6","z">>, <<"4",".","1">>,
             downstream_nightly_regex(<<"5","6">>)),
       Entry(Str(<<"5",".","7">>), <<"d","o","w","n","s","t","r","e","a","m","-","5","7","z">>, <<"4",".","2">>,
             downstream_nightly_regex(<<"5","7">>)),
       Entry(Str(<<"5",".","8">>), <<"d","o","w","n","s","t","r","e","a","m","-","5","8","z">>, <<"4",".","5">>,
             downstream_nightly_regex(<<"5","8">>)),
       Entry(Str(<<"5",".","9">>), <<"d","o","w","n","s","t","r","e","a","m","-","5","9","z">>, <<"4",".","6">>,
             downstream_nightly_regex(<<"5","9">>)),
       Entry(Str(<<"5",".","1","0">>), <<"d","o","w","n","s","t","r","e","a","m","-","5","1","0","z">>, <<"4",".","7">>,
             downstream_regex(<<"5","1","0">>)),
       Entry(Str(<<"d","a","r","g","a">>), <<"u","p","s","t","r","e","a","m","-","d","a","r","g","a">>, <<"m","a","s","t","e","r">>,
             upstream_regex(<<"d","a","r","g","a">>)),
       Entry(Str(<<"e","u","w","e">>), <<"u","p","s","t","r","e","a","m","-","e","u","w","e">>, <<"m","a","s","t","e","r">>,
             upstream_regex(<<"e","u","w","e">>)),
       Entry(Str(<<"f","i","n","e">>), <<"u","p","s","t","r","e","a","m","-","f","i","n","e">>, <<"m","a","s","t","e","r">>,
             upstream_regex(<<"f","i","n","e">>)),
       Entry(Str(<<"g","a","p">>), <<"u","p","s","t","r","e","a","m","-","g","a","p">>, <<"m","a","s","t","e","r">>,
             upstream_regex(<<"g","a","p","r","i">>)),
       Entry(LATEST, s_upstream, s_master, latest_regex)
    >>

\* the indices of the items of the table whose key self is in the series of
InSeriesOfKey(self) ==
    {i \in 1..Len(version_stream_product_mapping) :
        is_in_series(self, version_stream_product_mapping[i].key).b}

\* the loop of lines 187-189 returning after its last match, not its first
stream_of_last(hit) ==
    IF hit = {} THEN None ELSE Str(version_stream_product_mapping[Max(hit)].stream)

\* lines 187-189: the stream of the first item that matches, None after the loop
stream_of(hit) ==
    IF hit = {} THEN None ELSE Str(version_stream_product_mapping[Min(hit)].stream)

\* Version.stream
stream(self) == stream_of(InSeriesOfKey(self))

\* lines 192-194
product_version_of(hit) ==
    IF hit = {} THEN None
    ELSE Str(version_stream_product_mapping[Min(hit)].product_version)

\* Version.product_version
product_version(self) == product_version_of(InSeriesOfKey(self))

(***************************************************************************)
(* TemplateName.parse_template and futurecheck                             *)
(***************************************************************************)
DaysInMonth(year, month) ==
    IF month = 2
    THEN (IF year % 4 = 0 /\ (year % 100 # 0 \/ year % 400 = 0) THEN 29 ELSE 28)
    ELSE IF month \in {4, 6, 9, 11} THEN 30 ELSE 31

\* datetime.date(year, month, day): the date, or ValueError
date(year, month, day) ==
    IF year \in 1..9999 /\ month \in 1..12 /\ day \in 1..DaysInMonth(year, month)
    THEN [exc |-> "", year |-> year, month |-> month, day |-> day]
    ELSE [exc |-> "ValueError", year |-> 0, month |-> 0, day |-> 0]

\* check_date > today
DateGt(a, b) ==
    \/ a.year > b.year
    \/ a.year = b.year /\ a.month > b.month
    \/ a.year = b.year /\ a.month = b.month /\ a.day > b.day

RECURSIVE futurecheck(_, _)
\* futurecheck(check_date) on a day today_; the ValueError of date() in it, or
\* in the argument, goes to the caller
futurecheck(check_date, today_) ==
    IF check_date.exc # "" THEN check_date
    ELSE IF DateGt(check_date, today_)
         THEN futurecheck(date(check_date.year - 1, check_date.month, check_date.day), today_)
    ELSE check_date

\* the regex class (-|_)
Sep == {"-", "_"}

\* re.match gave None; else groupdict(), with <<>> for a year that is None or
\* no group and None for a ver that is no group
NoMatch == [ok |-> FALSE, ver |-> None, year |-> <<>>, month |-> <<>>, day |-> <<>>]

\* the number of digits from s[i] on
DigitsAt(s, i) == RunEnd(s, i, Digit) - i + 1

\* (?P<year>\d{n})?(?P<month>\d{2})(?P<day>\d{2}) at s[i]; the year is taken
\* when the digits suffice, and left out, where the ? allows, when they do not
DateGroups(s, i, n, optional, ver) ==
    IF DigitsAt(s, i) >= n + 4
    THEN [ok |-> TRUE, ver |-> ver, year |-> Slice(s, i, i + n - 1),
          month |-> SubSeq(s, i + n, i + n + 1), day |-> SubSeq(s, i + n + 2, i + n + 3)]
    ELSE IF optional /\ DigitsAt(s, i) >= 4
    THEN [ok |-> TRUE, ver |-> ver, year |-> <<>>,
          month |-> SubSeq(s, i, i + 1), day |-> SubSeq(s, i + 2, i + 3)]
    ELSE NoMatch

\* ^<head>\d+- : the index of the last digit, 0 when there is no match
VerEnd(s, head) ==
    IF /\ StartsAt(s, 1, head)
       /\ DigitsAt(s, Len(head) + 1) >= 1
       /\ RunEnd(s, Len(head) + 1, Digit) < Len(s)
       /\ s[RunEnd(s, Len(head) + 1, Digit) + 1] = "-"
    THEN RunEnd(s, Len(head) + 1, Digit)
    ELSE 0

\* ^<prefix>(?P<ver><nn>\d+)-<date>, with ver ending at e (0: no match); with
\* digits = 3 for \d{3} in the place of \d+
MatchNumbered(s, prefix, nn, digits, e, n, optional) ==
    IF e = 0 \/ (digits # 0 /\ e # Len(prefix) + Len(nn) + digits) THEN NoMatch
    ELSE DateGroups(s, e + 2, n, optional, Str(SubSeq(s, Len(prefix) + 1, e)))

\* ^s(-|_)(appl|tpl)(-|_)<word>(-|_)<rest> : the index of the last character,
\* 0 when there is no match
SproutEnd(s, word, rest) ==
    Max({0} \cup
        {3 + Len(kind) + Len(word) + 1 + Len(rest) : kind \in
            {k \in {<<"a","p","p","l">>, <<"t","p","l">>} :
                /\ StartsAt(s, 1, <<"s">>)
                /\ Len(s) >= 3 + Len(k) + Len(word) + 1
                /\ s[2] \in Sep
                /\ StartsAt(s, 3, k)
                /\ s[3 + Len(k)] \in Sep
                /\ StartsAt(s, 4 + Len(k), word)
                /\ s[4 + Len(k) + Len(word)] \in Sep
                /\ StartsAt(s, 5 + Len(k) + Len(word), rest)}})

\* [-\w]*? from s[p] on, then one of seps and n digits: the indices at which
\* such a stretch can end (p - 1 when it is empty)
LazyEnds(s, p, seps, n) ==
    {j \in (p - 1)..(Len(s) - 1) :
        /\ \A k \in p..j : s[k] \in WordChar \cup {"-"}
        /\ s[j + 1] \in seps
        /\ DigitsAt(s, j + 2) >= n}

\* the end of the shortest such stretch, 0 when there is none
LazyEnd(s, p, seps, n) ==
    IF LazyEnds(s, p, seps, n) = {} THEN 0 ELSE Min(LazyEnds(s, p, seps, n))

\* ^<head>[-\w]*?<sep><date>, with ver from s[from] to the end j of the stretch
MatchNamed(s, from, j, n) ==
    IF j = 0 THEN NoMatch ELSE DateGroups(s, j + 2, n, FALSE, Str(SubSeq(s, from, j)))

s_downstream == <<"d","o","w","n","s","t","r","e","a","m">>

\* ^s(-|_)(appl|tpl)(-|_)upstream(-|_)(stable(-|_))?<date> where the separator
\* after upstream is s[e]
MatchSproutLatest(s, e) ==
    IF e = 0 THEN NoMatch
    ELSE IF StartsAt(s, e + 1, <<"s","t","a","b","l","e">>) /\ Len(s) >= e + 7 /\ s[e + 7] \in Sep
         THEN DateGroups(s, e + 8, 2, FALSE, None)
    ELSE DateGroups(s, e + 1, 2, FALSE, None)

\* ^miq-nightly-(?P<ver>\d{8}) and ^miq-(?P<ver>\d{8})
MatchDate(s, head) ==
    IF StartsAt(s, 1, head) /\ DigitsAt(s, Len(head) + 1) >= 8
    THEN DateGroups(s, Len(head) + 1, 4, FALSE,
                    Str(SubSeq(s, Len(head) + 1, Len(head) + 8)))
    ELSE NoMatch

\* a stretch that starts after head, when s starts with head
LazyAfter(s, head, seps, n) ==
    IF StartsAt(s, 1, head) THEN LazyEnd(s, Len(head) + 1, seps, n) ELSE 0

\* the stretch of the sprout name of an upstream release
LazySprout(s, e, n) == IF e = 0 THEN 0 ELSE LazyEnd(s, e + 1, Sep, n)

\* re.match(regex, template_name).groupdict()
Match(regex, s) ==
    CASE regex.family = "cfme_5digit" ->
            MatchNumbered(s, <<"c","f","m","e","-">>, regex.text, 3, VerEnd(s, <<"c","f","m","e","-">> \o regex.text), 4, TRUE)
      [] regex.family = "cfme_nightly" ->
            MatchNumbered(s, <<"c","f","m","e","-","n","i","g","h","t","l","y","-">>, regex.text, 0,
                          VerEnd(s, <<"c","f","m","e","-","n","i","g","h","t","l","y","-">> \o regex.text), 4, TRUE)
      [] regex.family = "cfme_noyear" ->
            MatchNumbered(s, <<"c","f","m","e","-">>, regex.text, 0, VerEnd(s, <<"c","f","m","e","-">> \o regex.text), 0, FALSE)
      [] regex.family = "docker" ->
            MatchNumbered(s, <<"d","o","c","k","e","r","-">>, regex.text, 0, VerEnd(s, <<"d","o","c","k","e","r","-">> \o regex.text), 4, TRUE)
      [] regex.family = "sprout_downstream" ->
            IF /\ SproutEnd(s, s_downstream, regex.text \o <<"z">>) # 0
               /\ SproutEnd(s, s_downstream, regex.text \o <<"z">>) < Len(s)
               /\ s[SproutEnd(s, s_downstream, regex.text \o <<"z">>) + 1] \in Sep
            THEN DateGroups(s, SproutEnd(s, s_downstream, regex.text \o <<"z">>) + 2, 2, TRUE,
                            Str(regex.text))
            ELSE NoMatch
      [] regex.family = "miq" ->
            MatchNamed(s, Len(<<"m","i","q","-">>) + 1, LazyAfter(s, <<"m","i","q","-">> \o regex.text, {"-"}, 8), 4)
      [] regex.family = "miq_stable" ->
            MatchNamed(s, Len(<<"m","i","q","-","s","t","a","b","l","e","-">>) + 1,
                       LazyAfter(s, <<"m","i","q","-","s","t","a","b","l","e","-">> \o regex.text, {"-"}, 8), 4)
      [] regex.family = "sprout_upstream" ->
            MatchNamed(s, SproutEnd(s, s_upstream, regex.text) - Len(regex.text) + 1,
                       LazySprout(s, SproutEnd(s, s_upstream, regex.text), 6), 2)
      [] regex.family = "miq_nightly_date" -> MatchDate(s, <<"m","i","q","-","n","i","g","h","t","l","y","-">>)
      [] regex.family = "miq_date" -> MatchDate(s, <<"m","i","q","-">>)
      [] regex.family = "sprout_upstream_latest" ->
            MatchSproutLatest(s, SproutEnd(s, s_upstream, <<>>))

RECURSIVE candidates_of(_)
\* the two loops of lines 445-446: every regex of every item, in order
candidates_of(items) ==
    IF items = <<>> THEN <<>>
    ELSE [j \in 1..Len(Head(items).template_regex) |->
            [stream |-> Head(items).stream, regex |-> Head(items).template_regex[j]]]
         \o candidates_of(Tail(items))

Candidates == candidates_of(version_stream_product_mapping)

\* line 451: int(groups.get('year', today.year) or today.year)
year_of(groups, today_) == IF groups.year = <<>> THEN today_.year ELSE int(groups.year)

\* line 458: futurecheck(date(year, month, day))
template_date(groups, today_) ==
    futurecheck(date(year_of(groups, today_), int(groups.month), int(groups.day)), today_)

\* version.ljust(4, '0')
ljust4(version) ==
    IF Len(version) >= 4 THEN version
    ELSE version \o [i \in 1..(4 - Len(version)) |-> "0"]

\* lines 464-467 with a = 3, lines 470-473 with a = 2
dotted(version, a) ==
    <<version[1]>> \o <<".">> \o SubSeq(version, 2, a) \o <<".">> \o <<version[a + 1]>>
    \o <<".">> \o Slice(version, a + 2, Len(version))

\* lines 461-473
dot_version(stream_, version) ==
    IF ~Contains(stream_, s_downstream) THEN version
    ELSE Str(dotted(ljust4(version.s), IF StartsAt(version.s, 1, <<"5","1">>) THEN 3 ELSE 2))

\* no date: None, or date.today() where nothing reads it
NoDate == [year |-> 0, month |-> 0, day |-> 0]

\* the namedtuple TemplateInfo; exc is "" when parse_template returns one, and
\* NoDate stands for a datestamp of None
TemplateInfo(group_name, datestamp, stream_, version) ==
    [exc |-> "", group_name |-> group_name, datestamp |-> datestamp,
     stream |-> stream_, version |-> version]

s_sprout == <<"s","p","r","o","u","t">>

generic_matchers ==
    << [group_name |-> s_sprout, regex |-> <<"s","_","t","p","l">>],
       [group_name |-> s_sprout, regex |-> <<"s","-","t","p","l">>],
       [group_name |-> s_sprout, regex |-> <<"s","_","a","p","p","l">>],
       [group_name |-> s_sprout, regex |-> <<"s","-","a","p","p","l">>],
       [group_name |-> s_sprout,
        regex |-> <<"s","p","r","o","u","t","_","t","e","m","p","l","a","t","e">>],
       [group_name |-> <<"r","h","e","v","m","-","i","n","t","e","r","n","a","l">>,
        regex |-> <<"r","a","w">>] >>

\* the generic matchers found anywhere in the name (re.search for re.match)
GenericHits_search(template_name) ==
    {i \in 1..Len(generic_matchers) : Contains(template_name, generic_matchers[i].regex)}

\* the indices of the generic matchers that match
GenericHits(template_name) ==
    {i \in 1..Len(generic_matchers) : StartsAt(template_name, 1, generic_matchers[i].regex)}

\* lines 480-485
generic(template_name) ==
    IF GenericHits(template_name) # {}
    THEN TemplateInfo(generic_matchers[Min(GenericHits(template_name))].group_name,
                      NoDate, FALSE, None)
    ELSE TemplateInfo(<<"u","n","k","n","o","w","n">>, NoDate, FALSE, None)

\* lines 456-478 without the try of lines 456-460: the ValueError leaves
\* parse_template
scan_date_uncaught(template_name, today_, candidates, groups, d) ==
    IF d.exc # ""
    THEN [exc |-> d.exc, group_name |-> <<>>, datestamp |-> NoDate, stream |-> FALSE,
          version |-> None]
    ELSE TemplateInfo(Head(candidates).stream,
                      [year |-> d.year, month |-> d.month, day |-> d.day],
                      TRUE,
                      dot_version(Head(candidates).stream, groups.ver))

RECURSIVE scan(_, _, _)
\* lines 456-478 for the first of the candidates, with its groups and its date
scan_date(template_name, today_, candidates, groups, d) ==
    IF d.exc # "" THEN scan(template_name, today_, Tail(candidates))
    ELSE TemplateInfo(Head(candidates).stream,
                      [year |-> d.year, month |-> d.month, day |-> d.day],
                      TRUE,
                      dot_version(Head(candidates).stream, groups.ver))

\* lines 447-460 for the first of the candidates
scan_match(template_name, today_, candidates, groups) ==
    IF ~groups.ok THEN scan(template_name, today_, Tail(candidates))
    ELSE scan_date(template_name, today_, candidates, groups, template_date(groups, today_))

\* the loops of lines 445-478 over the candidates left, then lines 480-485
scan(template_name, today_, candidates) ==
    IF candidates = <<>> THEN generic(template_name)
    ELSE scan_match(template_name, today_, candidates,
                    Match(Head(candidates).regex, template_name))

\* TemplateName.parse_template on a day today_
parse_template(template_name, today_) == scan(template_name, today_, Candidates)

(***************************************************************************)
(* The module's top-level code and the calls of a caller                   *)
(***************************************************************************)
\* at most this many Version objects are constructed in one behaviour
MaxObjects == 5

NoObjects == [x |-> Unset, y |-> Unset, z |-> Unset, list |-> <<>>]

\* the strings a caller passes to Version() and get_version()
CallInputs ==
    {<<"m","a","s","t","e","r">>,
     <<"l","a","t","e","s","t">>,
     <<"m","a","s","t","e","r","-","a","l","p","h","a">>,
     <<"l","o","w","e","s","t">>,
     <<"5",".","7">>,
     <<"f","i","n","e">>,
     <<>>}

\* the interpreter starts to run the module's top-level code
Init ==
    /\ pc = "line214"
    /\ _lowest = Unset /\ _latest = Unset
    /\ LOWEST = Unset /\ LATEST = Unset
    /\ nobj = 0
    /\ made = [lowest |-> 0, latest |-> 0]
    /\ x = None /\ y = None /\ z = None
    /\ v = NoObjects
    /\ today = NoDate
    /\ res = [op |-> "none", arg |-> None, ret |-> None]

\* line 214: LOWEST = Version.lowest()
ImportLowest ==
    /\ pc = "line214"
    /\ \E r \in {lowest} :
        /\ LOWEST' = r.ret
        /\ _lowest' = r.cache
        /\ nobj' = r.nobj
        /\ made' = r.made
    /\ pc' = "line215"
    /\ UNCHANGED <<_latest, LATEST, x, y, z, v, today, res>>

\* line 215: LATEST = Version.latest()
ImportLatest ==
    /\ pc = "line215"
    /\ \E r \in {latest} :
        /\ LATEST' = r.ret
        /\ _latest' = r.cache
        /\ nobj' = r.nobj
        /\ made' = r.made
    /\ pc' = "ready"
    /\ UNCHANGED <<_lowest, LOWEST, x, y, z, v, today, res>>

\* a caller calls Version.latest()
CallLatest ==
    /\ pc = "ready"
    /\ \E r \in {latest} :
        /\ r.nobj <= MaxObjects
        /\ res' = [op |-> "latest", arg |-> None, ret |-> r.ret]
        /\ _latest' = r.cache
        /\ nobj' = r.nobj
        /\ made' = r.made
    /\ UNCHANGED <<pc, _lowest, LOWEST, LATEST, x, y, z, v, today>>

\* a caller calls Version.lowest()
CallLowest ==
    /\ pc = "ready"
    /\ \E r \in {lowest} :
        /\ r.nobj <= MaxObjects
        /\ res' = [op |-> "lowest", arg |-> None, ret |-> r.ret]
        /\ _lowest' = r.cache
        /\ nobj' = r.nobj
        /\ made' = r.made
    /\ UNCHANGED <<pc, _latest, LOWEST, LATEST, x, y, z, v, today>>

\* a caller constructs Version(s) and keeps the object
CallVersion ==
    /\ pc = "ready"
    /\ nobj < MaxObjects
    /\ \E s \in CallInputs :
       \E r \in {parse(Str(s), nobj + 1)} :
        /\ x' = Str(s)
        /\ v' = [v EXCEPT !.x = r]
        /\ res' = [op |-> "Version", arg |-> Str(s), ret |-> r]
    /\ nobj' = nobj + 1
    /\ UNCHANGED <<pc, _lowest, _latest, LOWEST, LATEST, made, y, z, today>>

\* a caller calls get_version with a string, or with the object it holds
CallGetVersion ==
    /\ pc = "ready"
    /\ \E arg \in {Str(s) : s \in CallInputs} \cup {None}
                  \cup (IF v.x.k = "Version" THEN {v.x} ELSE {}) :
       \E r \in {get_version(arg)} :
        /\ r.nobj <= MaxObjects
        /\ res' = [op |-> "get_version", arg |-> arg, ret |-> r.ret]
        /\ _latest' = r.cache
        /\ nobj' = r.nobj
        /\ made' = r.made
    /\ UNCHANGED <<pc, _lowest, LOWEST, LATEST, x, y, z, v, today>>

Next ==
    \/ ImportLowest
    \/ ImportLatest
    \/ CallLatest
    \/ CallLowest
    \/ CallVersion
    \/ CallGetVersion

Spec == Init /\ [][Next]_vars

\* the state the module's top-level code leaves
Imported ==
    /\ pc = "ready"
    /\ _lowest = parse(Str(<<"l","o","w","e","s","t">>), 1)
    /\ _latest = parse(Str(<<"l","a","t","e","s","t">>), 2)
    /\ LOWEST = _lowest
    /\ LATEST = _latest
    /\ nobj = 2
    /\ made = [lowest |-> 1, latest |-> 1]

(***************************************************************************)
(* Comparisons of two values                                               *)
(***************************************************************************)
\* the strings compared with each other
CompareInputs ==
    {<<"m","a","s","t","e","r">>,
     <<"l","a","t","e","s","t">>,
     <<"u","p","s","t","r","e","a","m">>,
     <<"l","o","w","e","s","t">>,
     <<"f","i","n","e">>,
     <<"e","u","w","e">>,
     <<"g","a","p","r","i","n","d","a","s","h","v","i","l","i">>,
     <<"h","a","m","m","e","r">>,
     <<"i","v","a","n","c","h","u","c","k">>,
     <<"j","a","n","s","a">>,
     <<"d","a","r","g","a","-","3">>,
     <<"5",".","6",".","1">>,
     <<"5",".","7">>,
     <<"5",".","8">>,
     <<"5",".","9">>,
     <<"5",".","1","0">>,
     <<"5",".","1","1">>,
     <<"5",".","1","2">>,
     <<"5",".","1","3">>,
     <<"5",".","9",".","0",".","1">>,
     <<"1">>,
     <<"2">>,
     <<"1",".","2",".","3",".","4">>,
     <<"1",".","2",".","3",".","4",".","1">>,
     <<"5",".","7",".","0",".","2","3">>,
     <<"5",".","7",".","0",".","2","1">>,
     <<"5",".","7","a">>,
     <<"5",".","7",".","1">>,
     <<"1",".","2",".","3","-","f","o","o","1">>,
     <<"1",".","2",".","3">>,
     <<"1",".","2",".","3","-","b","e","t","a","1">>,
     <<>>,
     <<"m","a","s","t","e","r","-","a","l","p","h","a">>,
     <<"m","a","s","t","e","r","-","b","e","t","a">>,
     <<"m","a","s","t","e","r",".">>,
     <<"l","o","w","e","s","t",".">>,
     <<"X","l","o","w","e","s","t">>,
     <<" ","5",".","7"," ">>,
     <<"1",".","2",".","3",".","4","-","a","l","p","h","a","-","n","i","g","h","t","l","y">>,
     <<"1",".","2",".","3",".","4","-","b","e","t","a","1",".","1">>,
     <<"1",".","2",".","3",".","4","-","b","e","t","a","1",".","1","0">>,
     <<"1",".","2",".","3",".","4","-","b","e","t","a","0","1">>,
     <<"1",".","2",".","3",".","4","-","r","c","1","-","b","e","t","a">>,
     <<"1",".","2",".","3",".","4","-","a","l","p","h","a","1",".","2",".","3">>}

\* the decimal digits of a natural number (the text of a generated input)
RECURSIVE Digits(_)
Digits(n) == IF n < 10 THEN <<DigitSeq[n + 1]>> ELSE Digits(n \div 10) \o <<DigitSeq[(n % 10) + 1]>>

\* the numbers in the generated pre-release tags go up to this
MaxSuffixNumber == 2

\* 1.2.3.4-<suffix> and 1.2.3.4-<suffix><n> for every known suffix
TaggedInputs ==
    {<<"1",".","2",".","3",".","4">> \o <<"-">> \o SUFFIXES[i] : i \in 1..Len(SUFFIXES)}
    \cup {<<"1",".","2",".","3",".","4">> \o <<"-">> \o SUFFIXES[i] \o Digits(n) :
            i \in 1..Len(SUFFIXES), n \in 0..MaxSuffixNumber}

\* a caller has two values at hand: strings, None, or the module's sentinels
InitCompare ==
    /\ Imported
    /\ \E ox \in {Unset, LOWEST, LATEST}, oy \in {Unset, LOWEST, LATEST} :
        v = [NoObjects EXCEPT !.x = ox, !.y = oy]
    /\ x \in IF v.x.k = "unset" THEN {Str(s) : s \in CompareInputs \cup TaggedInputs}
             ELSE {None}
    /\ y \in IF v.y.k = "unset" THEN {Str(s) : s \in CompareInputs \cup TaggedInputs} \cup {None}
             ELSE {None}
    /\ z = None
    /\ today = NoDate
    /\ res = [op |-> "none"]

\* v1 = Version(v1)
ConstructX ==
    /\ v.x.k = "unset"
    /\ x.k # "None"
    /\ v' = [v EXCEPT !.x = parse(x, nobj + 1)]
    /\ nobj' = nobj + 1
    /\ res' = [op |-> "none"]
    /\ UNCHANGED <<pc, _lowest, _latest, LOWEST, LATEST, made, x, y, z, today>>

\* v2 = Version(v2)
ConstructY ==
    /\ v.y.k = "unset"
    /\ y.k # "None"
    /\ v' = [v EXCEPT !.y = parse(y, nobj + 1)]
    /\ nobj' = nobj + 1
    /\ res' = [op |-> "none"]
    /\ UNCHANGED <<pc, _lowest, _latest, LOWEST, LATEST, made, x, y, z, today>>

\* the right operand: the object when there is one, else the value itself
Right == IF v.y.k = "Version" THEN v.y ELSE y

\* v1 < v2, v1 == v2, v1 > v2 and, for two Versions, v2 < v1
Compare ==
    /\ v.x.k = "Version"
    /\ res.op = "none"
    /\ \E r \in {Coerce(Right)} :
        res' = [op |-> "compare",
                lt |-> lt_coerced(v.x, r),
                eq |-> eq_coerced(v.x, r),
                gt |-> gt_from_lt(lt_coerced(v.x, r), eq_coerced(v.x, r)),
                rlt |-> IF Right.k = "Version" THEN lt_coerced(r, v.x) ELSE None]
    /\ UNCHANGED <<pc, _lowest, _latest, LOWEST, LATEST, nobj, made, x, y, z, v, today>>

NextCompare ==
    \/ ConstructX
    \/ ConstructY
    \/ Compare

SpecCompare == InitCompare /\ [][NextCompare]_vars

(***************************************************************************)
(* One release line: three versions compared, and the test's sort          *)
(***************************************************************************)
\* the generated versions 5.7.p.b have p up to MaxPatch and b up to MaxBuild
MaxPatch == 1

MaxBuild == 1

LineTags == { <<>>, <<"-","a","l","p","h","a","1">>, <<"-","b","e","t","a">>, <<"-","b","e","t","a","0">>, <<"-","r","c","1">> }

\* 5.7 and 5.7.p.b, bare and with each tag
LineInputs ==
    {<<"5",".","7">>} \cup {<<"5",".","7">> \o <<".">> \o Digits(p) \o <<".">> \o Digits(b) \o tag :
                    p \in 0..MaxPatch, b \in 0..MaxBuild, tag \in LineTags}

\* tests/test_version.py: the strings of version_list
version_list ==
    << <<"5",".","7",".","0",".","0">>,
       <<"5",".","7",".","0",".","1","1","-","r","c","1">>,
       <<"5",".","7",".","0",".","5","-","a","l","p","h","a","2">>,
       <<"5",".","7",".","0",".","1","7","-","n","i","g","h","t","l","y">>,
       <<"5",".","7",".","0",".","6","-","a","l","p","h","a","3">>,
       <<"5",".","7",".","0",".","1","2","-","r","c","2">>,
       <<"5",".","7",".","0",".","1">>,
       <<"5",".","7",".","0",".","6">>,
       <<"5",".","7",".","0",".","5">>,
       <<"5",".","7",".","0",".","4">>,
       <<"5",".","7",".","0",".","9">>,
       <<"5",".","7",".","0",".","2">>,
       <<"5",".","7",".","0",".","1","0","-","b","e","t","a","3">>,
       <<"5",".","7",".","0",".","1","3","-","r","c","3">>,
       <<"5",".","7",".","0",".","3">>,
       <<"5",".","7",".","0",".","7","-","b","e","t","a","1">>,
       <<"5",".","7",".","1",".","3">>,
       <<"5",".","7",".","1",".","0">>,
       <<"5",".","7",".","1",".","1">>,
       <<"5",".","7",".","4",".","3">>,
       <<"5",".","7",".","4",".","2">>,
       <<"5",".","7",".","4",".","1">>,
       <<"5",".","7",".","4",".","0">>,
       <<"5",".","7",".","2",".","1">>,
       <<"5",".","7",".","2",".","0">>,
       <<"5",".","7",".","3",".","2">>,
       <<"5",".","7",".","1",".","2">>,
       <<"5",".","7",".","0",".","1","7">>,
       <<"5",".","7",".","0",".","1","6">>,
       <<"5",".","7",".","0",".","1","4">>,
       <<"5",".","7",".","0",".","1","3">>,
       <<"5",".","7",".","0",".","1","1">>,
       <<"5",".","7",".","0",".","1","0">>,
       <<"5",".","7",".","0",".","1","4","-","r","c","4">>,
       <<"5",".","7",".","3",".","1">>,
       <<"5",".","7",".","0",".","9","-","b","e","t","a","2",".","1">>,
       <<"5",".","7",".","0",".","7">>,
       <<"5",".","7",".","0",".","4","-","a","l","p","h","a","1">>,
       <<"5",".","7",".","3",".","0">>,
       <<"5",".","7",".","0",".","1","2">> >>

\* tests/test_version.py: the strings of reverse_sorted_version
reverse_sorted_version ==
    << <<"5",".","7",".","4",".","3">>,
       <<"5",".","7",".","4",".","2">>,
       <<"5",".","7",".","4",".","1">>,
       <<"5",".","7",".","4",".","0">>,
       <<"5",".","7",".","3",".","2">>,
       <<"5",".","7",".","3",".","1">>,
       <<"5",".","7",".","3",".","0">>,
       <<"5",".","7",".","2",".","1">>,
       <<"5",".","7",".","2",".","0">>,
       <<"5",".","7",".","1",".","3">>,
       <<"5",".","7",".","1",".","2">>,
       <<"5",".","7",".","1",".","1">>,
       <<"5",".","7",".","1",".","0">>,
       <<"5",".","7",".","0",".","1","7">>,
       <<"5",".","7",".","0",".","1","7","-","n","i","g","h","t","l","y">>,
       <<"5",".","7",".","0",".","1","6">>,
       <<"5",".","7",".","0",".","1","4">>,
       <<"5",".","7",".","0",".","1","4","-","r","c","4">>,
       <<"5",".","7",".","0",".","1","3">>,
       <<"5",".","7",".","0",".","1","3","-","r","c","3">>,
       <<"5",".","7",".","0",".","1","2">>,
       <<"5",".","7",".","0",".","1","2","-","r","c","2">>,
       <<"5",".","7",".","0",".","1","1">>,
       <<"5",".","7",".","0",".","1","1","-","r","c","1">>,
       <<"5",".","7",".","0",".","1","0">>,
       <<"5",".","7",".","0",".","1","0","-","b","e","t","a","3">>,
       <<"5",".","7",".","0",".","9">>,
       <<"5",".","7",".","0",".","9","-","b","e","t","a","2",".","1">>,
       <<"5",".","7",".","0",".","7">>,
       <<"5",".","7",".","0",".","7","-","b","e","t","a","1">>,
       <<"5",".","7",".","0",".","6">>,
       <<"5",".","7",".","0",".","6","-","a","l","p","h","a","3">>,
       <<"5",".","7",".","0",".","5">>,
       <<"5",".","7",".","0",".","5","-","a","l","p","h","a","2">>,
       <<"5",".","7",".","0",".","4">>,
       <<"5",".","7",".","0",".","4","-","a","l","p","h","a","1">>,
       <<"5",".","7",".","0",".","3">>,
       <<"5",".","7",".","0",".","2">>,
       <<"5",".","7",".","0",".","1">>,
       <<"5",".","7",".","0",".","0">> >>

\* a list, started k places later
Rotated(list, k) == [i \in 1..Len(list) |-> list[((i + k - 1) % Len(list)) + 1]]

\* [Version(s) for s in list], the objects numbered from oid + 1
Versions(list, oid) == [i \in 1..Len(list) |-> parse(Str(list[i]), oid + i)]

\* either three strings of the release line, or the test's list in some order
InitLine ==
    /\ Imported
    /\ today = NoDate
    /\ res = [op |-> "none"]
    /\ \/ /\ x \in {Str(s) : s \in LineInputs}
          /\ y \in {Str(s) : s \in LineInputs}
          /\ z \in {Str(s) : s \in LineInputs}
          /\ v = NoObjects
       \/ /\ x = None /\ y = None /\ z = None
          /\ \E k \in 0..(Len(version_list) - 1) :
                v = [NoObjects EXCEPT !.list = Versions(Rotated(version_list, k), nobj)]

\* the comparisons among three objects a, b, c
order_of(a, b, c) ==
    [op |-> "order",
     xy |-> lt_coerced(a, b), yx |-> lt_coerced(b, a),
     yz |-> lt_coerced(b, c), xz |-> lt_coerced(a, c),
     xx |-> lt_coerced(a, a),
     eq |-> eq_coerced(a, b)]

\* three Versions are constructed and compared with each other
Order ==
    /\ x.k = "str"
    /\ res.op = "none"
    /\ \E a \in {parse(x, nobj + 1)}, b \in {parse(y, nobj + 2)}, c \in {parse(z, nobj + 3)} :
        /\ v' = [v EXCEPT !.x = a, !.y = b, !.z = c]
        /\ res' = order_of(a, b, c)
    /\ nobj' = nobj + 3
    /\ UNCHANGED <<pc, _lowest, _latest, LOWEST, LATEST, made, x, y, z, today>>

RECURSIVE insert_position(_, _, _)
\* where e goes into the descending list out: before the first element below it
\* (0: the comparison raised)
insert_position(e, out, i) ==
    IF i > Len(out) THEN i
    ELSE IF lt_coerced(out[i], e).k = "raise" THEN 0
    ELSE IF lt_coerced(out[i], e).b THEN i
    ELSE insert_position(e, out, i + 1)

RECURSIVE sort_from(_, _)
\* sorted(list, reverse=True), which compares by __lt__ alone, as an insertion
\* sort: [exc, list]
sort_step(list, out, pos) ==
    IF pos = 0 THEN [exc |-> "TypeError", list |-> <<>>]
    ELSE sort_from(Tail(list), SubSeq(out, 1, pos - 1) \o <<Head(list)>> \o SubSeq(out, pos, Len(out)))

sort_from(list, out) ==
    IF list = <<>> THEN [exc |-> "", list |-> out]
    ELSE sort_step(list, out, insert_position(Head(list), out, 1))

sorted_reverse(list) == sort_from(list, <<>>)

\* list == [Version(s) for s in strings], by Version.__eq__
list_eq(list, strings) ==
    /\ Len(list) = Len(strings)
    /\ \A i \in 1..Len(list) : eq_coerced(list[i], parse(Str(strings[i]), 0)).b

\* test_version_list: sorted(version_list, reverse=True) == reverse_sorted_version
TestVersionList ==
    /\ v.list # <<>>
    /\ res.op = "none"
    /\ \E r \in {sorted_reverse(v.list)} :
        res' = [op |-> "sorted",
                exc |-> r.exc,
                ret |-> [i \in 1..Len(r.list) |-> str(r.list[i])],
                passed |-> list_eq(r.list, reverse_sorted_version)]
    /\ UNCHANGED <<pc, _lowest, _latest, LOWEST, LATEST, nobj, made, x, y, z, v, today>>

NextLine ==
    \/ Order
    \/ TestVersionList

SpecLine == InitLine /\ [][NextLine]_vars

(***************************************************************************)
(* Series membership and stream lookup                                     *)
(***************************************************************************)
\* the generated versions 5.N and 5.N.1.2 have N from 1 up to MaxMinor
MaxMinor == 11

\* the candidates: names, odd strings, and 5.N, 5.N.1.2
CandidateInputs ==
    { <<"m","a","s","t","e","r">>,
      <<"l","a","t","e","s","t">>,
      <<"u","p","s","t","r","e","a","m">>,
      <<"l","o","w","e","s","t">>,
      <<"m","a","s","t","e","r","-","a","l","p","h","a">>,
      <<"m","a","s","t","e","r",".">>,
      <<"m","a","s","t","e","r","f","u","l">>,
      <<>>,
      <<"f","i","n","e">>,
      <<"e","u","w","e","-","1">>,
      <<"d","a","r","g","a">>,
      <<"d","a","r","g","a","-","3">>,
      <<"g","a","p">>,
      <<"h","a","m","m","e","r">>,
      <<"5">>,
      <<"5",".","7","a">>,
      <<"6",".","0">> }
    \cup {<<"5", ".">> \o Digits(n) : n \in 1..MaxMinor}
    \cup {<<"5", ".">> \o Digits(n) \o <<".","1",".","2">> : n \in 1..MaxMinor}

\* the series
SeriesInputs ==
    { <<"m","a","s","t","e","r">>,
      <<"l","a","t","e","s","t">>,
      <<"l","o","w","e","s","t">>,
      <<"m","a","s","t","e","r","-","a","l","p","h","a">>,
      <<"m","a","s","t","e","r",".">>,
      <<"m","a","s","t","e","r","f","u","l">>,
      <<>>,
      <<"f","i","n","e">>,
      <<"d","a","r","g","a">>,
      <<"5">>,
      <<"5",".","7">>,
      <<"5",".","7",".","1">>,
      <<"5",".","1","0">>,
      <<"5",".","1">>,
      <<"5",".","7",".","1",".","2">>,
      <<"5",".","7","-","b","e","t","a">> }

\* a caller has a candidate and a series at hand: strings, None for the
\* candidate, or the module's sentinels
InitSeries ==
    /\ Imported
    /\ \E ox \in {Unset, LOWEST, LATEST}, oy \in {Unset, LOWEST, LATEST} :
        v = [NoObjects EXCEPT !.x = ox, !.y = oy]
    /\ x \in IF v.x.k = "unset" THEN {Str(s) : s \in CandidateInputs} \cup {None} ELSE {None}
    /\ y \in IF v.y.k = "unset" THEN {Str(s) : s \in SeriesInputs} ELSE {None}
    /\ z = None
    /\ today = NoDate
    /\ res = [op |-> "none"]

\* the left operand: the object when there is one, else the value itself
Left == IF v.x.k = "Version" THEN v.x ELSE x

\* v1.is_in_series(v2), v2 a Version or a string
CallIsInSeries ==
    /\ v.x.k = "Version"
    /\ res' = [op |-> "is_in_series", series |-> Right, ret |-> is_in_series(v.x, Right)]
    /\ UNCHANGED <<pc, _lowest, _latest, LOWEST, LATEST, nobj, made, x, y, z, v, today>>

\* v1 in v2, v1 a Version, a string or None
CallContains ==
    /\ v.y.k = "Version"
    /\ res' = [op |-> "contains", ver |-> Left, ret |-> __contains__(v.y, Left)]
    /\ UNCHANGED <<pc, _lowest, _latest, LOWEST, LATEST, nobj, made, x, y, z, v, today>>

\* v1.stream()
CallStream ==
    /\ v.x.k = "Version"
    /\ res' = [op |-> "stream", ret |-> stream(v.x)]
    /\ UNCHANGED <<pc, _lowest, _latest, LOWEST, LATEST, nobj, made, x, y, z, v, today>>

\* v1.product_version()
CallProductVersion ==
    /\ v.x.k = "Version"
    /\ res' = [op |-> "product_version", ret |-> product_version(v.x)]
    /\ UNCHANGED <<pc, _lowest, _latest, LOWEST, LATEST, nobj, made, x, y, z, v, today>>

NextSeries ==
    \/ ConstructX
    \/ ConstructY
    \/ CallIsInSeries
    \/ CallContains
    \/ CallStream
    \/ CallProductVersion

SpecSeries == InitSeries /\ [][NextSeries]_vars

(***************************************************************************)
(* Template names resolved on some day                                     *)
(***************************************************************************)
\* the template names
TemplateInputs ==
    { <<"c","f","m","e","-","5","1","0","0","6","-","0","7","2","5","2","2","5","0">>,
      <<"c","f","m","e","-","5","9","4","1","0","-","0","4","1","3","2","2","5","0">>,
      <<"m","i","q","-","n","i","g","h","t","l","y","-","2","0","1","8","0","5","3","1">>,
      <<"m","i","q","-","d","a","r","g","a","-","2","0","1","5","1","0","0","9">>,
      <<"m","i","q","-","e","u","w","e","-","2","0","1","6","1","0","2","8">>,
      <<"m","i","q","-","f","i","n","e","-","3","-","2","0","1","7","1","2","1","5">>,
      <<"m","i","q","-","g","a","p","r","i","-","2","0","1","8","0","4","1","1">>,
      <<"c","f","m","e","-","5",".","2",".","5",".","3","-","2","0","1","8","0","2","1","3">>,
      <<"c","f","m","e","-","5",".","9",".","3",".","1","0","-","p","v","-","2","0","1","8","0","2","2","3">>,
      <<"d","o","c","k","e","r","-","5","9","4","1","0","-","2","0","1","8","0","6","0","6">>,
      <<"d","o","c","k","e","r","-","5",".","9",".","4",".","1","0","-","2","0","1","8","0","6","0","6">>,
      <<"s","_","t","p","l","_","d","o","w","n","s","t","r","e","a","m","-","5","1","0","z","_","1","8","0","6","2","1","_","n","B","A","F","L","Q","8","A">>,
      <<"c","f","m","e","-","5","9","4","1","0","-","2","0","1","8","0","4","1","3">>,
      <<"c","f","m","e","-","5","9","4","1","0","-","2","0","2","8","0","2","2","9">>,
      <<"c","f","m","e","-","5","9","4","1","0","-","2","0","2","0","0","2","2","9">>,
      <<"c","f","m","e","-","5","9","4","1","0","-","0","2","2","9">>,
      <<"c","f","m","e","-","5","9","4","1","0","-","2","0","1","9","0","2","2","9">>,
      <<"c","f","m","e","-","5","9","4","1","0","-","0","0","0","0","0","4","1","3">>,
      <<"c","f","m","e","-","n","i","g","h","t","l","y","-","5","9","4","1","0","-","2","0","1","8","0","6","0","6">>,
      <<"c","f","m","e","-","n","i","g","h","t","l","y","-","5","8","4","1","-","0","6","0","6">>,
      <<"c","f","m","e","-","5","2","1","2","3","-","0","9","3","1">>,
      <<"c","f","m","e","-","5","2","1","2","-","1","2","3","1">>,
      <<"c","f","m","e","-","5","1","0","1","2","3","-","2","0","1","8","0","1","0","1">>,
      <<"c","f","m","e","-","5","-","2","0","1","8","0","1","0","1">>,
      <<"c","f","m","e","-","5","2","-","0","1","0","1">>,
      <<"m","i","q","-","s","t","a","b","l","e","-","f","i","n","e","-","4","-","2","0","1","8","0","1","0","1">>,
      <<"m","i","q","-","s","t","a","b","l","e","-","2","0","1","8","0","1","0","1">>,
      <<"m","i","q","-","2","0","1","8","0","5","3","1">>,
      <<"m","i","q","-","2","0","1","8","1","3","4","0">>,
      <<"m","i","q","-","e","u","w","e","-","1","-","2","0","1","6","1","0","2","8","-","2","0","1","7","0","1","0","1">>,
      <<"m","i","q","-","e","u","w","e","_","x","-","2","0","1","6","-","2","0","1","6","1","0","2","8">>,
      <<"s","_","a","p","p","l","_","u","p","s","t","r","e","a","m","_","f","i","n","e","-","1","_","1","8","0","1","0","1">>,
      <<"s","-","t","p","l","-","u","p","s","t","r","e","a","m","-","1","8","0","6","2","1">>,
      <<"s","_","t","p","l","_","u","p","s","t","r","e","a","m","_","s","t","a","b","l","e","_","1","8","0","6","2","1">>,
      <<"s","_","t","p","l","_","u","p","s","t","r","e","a","m","_","s","t","a","b","l","e","_","1","8","1","3","0","1">>,
      <<"s","_","t","p","l","_","d","o","w","n","s","t","r","e","a","m","-","5","9","z","_","0","6","2","1">>,
      <<"s","_","t","p","l","_","d","o","w","n","s","t","r","e","a","m","-","5","9","z","_","1","8","0","2","2","9">>,
      <<"s","_","t","p","l","_","d","o","w","n","s","t","r","e","a","m","-","5","2","z","-","9","9","1","2","3","1">>,
      <<"s","_","t","p","l","_","x">>,
      <<"s","-","a","p","p","l">>,
      <<"s","p","r","o","u","t","_","t","e","m","p","l","a","t","e","_","x">>,
      <<"r","a","w","-","t","h","i","n","g">>,
      <<"n","o","t","-","r","a","w">>,
      <<>>,
      <<"c","f","m","e">>,
      <<"C","f","m","e","-","5","9","4","1","0","-","2","0","1","8","0","4","1","3">>,
      <<" ","c","f","m","e","-","5","9","4","1","0","-","2","0","1","8","0","4","1","3">>,
      <<"d","o","c","k","e","r","-","5","7","1","0","-","1","2","3","1">>,
      <<"d","o","c","k","e","r","-","5","7","1","0","-","2","0","3","0","1","2","3","1">>,
      <<"m","i","q","-","n","i","g","h","t","l","y","-","2","0","1","8","0","5","3">>,
      <<"s","_","a","p","p","l","_","u","p","s","t","r","e","a","m","_","g","a","p","r","i","_","2","0","0","2","2","9">> }

\* the days on which they are resolved
TodayInputs ==
    { [year |-> 2018, month |-> 6, day |-> 22],
      [year |-> 2024, month |-> 1, day |-> 15],
      [year |-> 2026, month |-> 11, day |-> 3] }

\* a caller has a template name at hand, on some day
InitTemplate ==
    /\ Imported
    /\ x \in {Str(s) : s \in TemplateInputs}
    /\ y = None /\ z = None
    /\ v = NoObjects
    /\ today \in TodayInputs
    /\ res = [op |-> "none"]

\* TemplateName.parse_template(x)
ParseTemplate ==
    /\ x.k = "str"
    /\ today # NoDate
    /\ res' = [op |-> "parse_template", ret |-> parse_template(x.s, today)]
    /\ UNCHANGED <<pc, _lowest, _latest, LOWEST, LATEST, nobj, made, x, y, z, v, today>>

NextTemplate ==
    \/ ParseTemplate

SpecTemplate == InitTemplate /\ [][NextTemplate]_vars

(***************************************************************************)
(* Dates handed to futurecheck on some day                                 *)
(***************************************************************************)
\* the dates are of years up to this many after that of today
MaxYearsAhead == 4

\* the dates: the first and last day of a year, the days about the end of
\* February and the day of today, in a year about that of today_ or long before
DateInputs(today_) ==
    {d \in {date(year, md[1], md[2]) :
                year \in {16, 2000} \cup ((today_.year - 1)..(today_.year + MaxYearsAhead)),
                md \in {<<1, 1>>, <<2, 28>>, <<2, 29>>, <<3, 1>>, <<12, 31>>,
                        <<today_.month, today_.day>>}} :
        d.exc = ""}

\* a caller has a date at hand, on some day
InitFuture ==
    /\ Imported
    /\ x = None /\ z = None
    /\ v = NoObjects
    /\ today \in TodayInputs
    /\ y \in DateInputs(today)
    /\ res = [op |-> "none"]

\* futurecheck(y)
CallFuturecheck ==
    /\ today # NoDate
    /\ res' = [op |-> "futurecheck", arg |-> y, ret |-> futurecheck(y, today)]
    /\ UNCHANGED <<pc, _lowest, _latest, LOWEST, LATEST, nobj, made, x, y, z, v, today>>

\* the caller takes the date futurecheck returned as the date at hand
TakeResult ==
    /\ res.op = "futurecheck"
    /\ res.ret.exc = ""
    /\ res.ret # y
    /\ y' = res.ret
    /\ res' = [op |-> "none"]
    /\ UNCHANGED <<pc, _lowest, _latest, LOWEST, LATEST, nobj, made, x, z, v, today>>

NextFuture ==
    \/ CallFuturecheck
    \/ TakeResult

SpecFuture == InitFuture /\ [][NextFuture]_vars

(***************************************************************************)
(* Properties of ordering and equality                                     *)
(***************************************************************************)
\* the right operand as a Version (a string operand is parsed by the comparison)
RightVersion == Coerce(Right)

Compared == res.op = "compare" /\ RightVersion.k = "Version"

\* v2 < v1 gave b, where v2 is a Version (a string on the left has no __lt__ of ours)
ReverseIs(b) == Right.k = "Version" => res.rlt = b

IsLatest(a) == eq_versions(a, LATEST).b

IsLowest(a) == eq_versions(a, LOWEST).b

HasWord(a) == \E i \in 1..Len(a.version) : a.version[i].t = "str"

HasInt(a) == \E i \in 1..Len(a.version) : a.version[i].t = "int"

\* C1: a Version that is not LATEST is below LATEST and not above it, a Version
\* that is not LOWEST is above LOWEST and not below it, and LOWEST is below
\* LATEST; no comparison with a sentinel raises, whatever the components are.
C1_SentinelsAreExtremes ==
    Compared =>
        /\ (IsLatest(RightVersion) /\ ~IsLatest(v.x)) => (res.lt = True /\ ReverseIs(False))
        /\ (IsLowest(RightVersion) /\ ~IsLowest(v.x)) => (res.lt = False /\ ReverseIs(True))
        /\ (IsLatest(v.x) /\ ~IsLatest(RightVersion)) => (res.lt = False /\ ReverseIs(True))
        /\ (IsLowest(v.x) /\ ~IsLowest(RightVersion)) => (res.lt = True /\ ReverseIs(False))
        /\ (IsLowest(v.x) /\ IsLatest(RightVersion)) => (res.lt = True /\ ReverseIs(False))

\* C1 witness: a Version of mixed int and word components was compared with the
\* LATEST and with the LOWEST global
C1_Witness ==
    /\ Compared
    /\ HasWord(v.x) /\ HasInt(v.x)
    /\ v.y = LATEST
    /\ res.lt = True /\ ReverseIs(False)

\* the strings 1.2.3.4-<tag>, by tag
Tagged(tag) == Str(<<"1",".","2",".","3",".","4">> \o tag)

\* chains of tags in ascending order; the empty tag is the release itself
TagChains ==
    << << <<"-","a","l","p","h","a","1">>, <<"-","a","l","p","h","a","2">>, <<"-","b","e","t","a","1">>, <<"-","r","c","1">>, <<>> >>,
       << <<"-","b","e","t","a">>, <<"-","b","e","t","a","1">>, <<"-","b","e","t","a","1",".","1">> >>,
       << <<"-","a","l","p","h","a">>, <<"-","a","l","p","h","a","-","n","i","g","h","t","l","y">> >>,
       << <<"-","n","i","g","h","t","l","y">>, <<"-","p","r","e">>, <<"-","a","l","p","h","a">>, <<"-","b","e","t","a">>, <<"-","r","c">> >> >>

\* (rank, number) sequences in lexicographic order, stated without the code's list <
KeyBelow(p, q) == p.rank < q.rank \/ (p.rank = q.rank /\ p.num.n * q.num.d < q.num.n * p.num.d)

LexBelow(a, b) ==
    \E k \in 1..Len(b) :
        /\ k <= Len(a) + 1
        /\ \A i \in 1..(k - 1) : a[i] = b[i]
        /\ (k = Len(a) + 1 \/ KeyBelow(a[k], b[k]))

\* C3: for two Versions with equal components that are not sentinels, the one
\* without a suffix is the greater, two suffixed ones are ordered as their
\* normalized (rank, number) sequences are lexicographically, and the chains
\* alpha1 < alpha2 < beta1 < rc1 < release, beta < beta1 < beta1.1,
\* alpha < alpha-nightly, nightly < pre < alpha < beta < rc hold.
C3_SuffixDecides ==
    (/\ Compared
     /\ v.x.version = RightVersion.version
     /\ ~IsLatest(v.x) /\ ~IsLowest(v.x)
     /\ ~IsLatest(RightVersion) /\ ~IsLowest(RightVersion)) =>
        /\ (v.x.suffix = NoSuffix /\ RightVersion.suffix # NoSuffix) =>
                (res.lt = False /\ ReverseIs(True) /\ res.gt = True)
        /\ (v.x.suffix # NoSuffix /\ RightVersion.suffix # NoSuffix) =>
                /\ res.lt \in {True, False}
                /\ res.lt = True <=> LexBelow(normalized_suffix(v.x).list,
                                              normalized_suffix(RightVersion).list)
        /\ \A c \in 1..Len(TagChains) : \A i, j \in 1..Len(TagChains[c]) :
                (i < j /\ x = Tagged(TagChains[c][i]) /\ y = Tagged(TagChains[c][j])) =>
                    (res.lt = True /\ ReverseIs(False) /\ res.eq = False)

\* C3 witness: 1.2.3.4-beta1 was compared with 1.2.3.4-beta1.1, and a tagged
\* version with the release
C3_Witness ==
    /\ Compared
    /\ x = Tagged(<<"-","b","e","t","a","1">>)
    /\ y = Tagged(<<"-","b","e","t","a","1",".","1">>)
    /\ res.lt = True

\* C4: a == b exactly when the components are equal and the normalized suffix
\* sequences are equal; a Version without a suffix never equals a suffixed one
\* of the same components, and a suffix without a number equals the same suffix
\* with number 0.
C4_EqualityIsComponentsAndSuffix ==
    Compared =>
        /\ res.eq = True <=>
              /\ v.x.version = RightVersion.version
              /\ normalized_suffix(v.x).list = normalized_suffix(RightVersion).list
        /\ res.eq \in {True, False}
        /\ (v.x.suffix = NoSuffix /\ RightVersion.suffix # NoSuffix) => res.eq = False
        /\ (v.x.suffix = NoSuffix) => normalized_suffix(v.x).list = <<>>
        /\ \A i \in 1..Len(SUFFIXES) :
              (/\ x = Tagged(<<"-">> \o SUFFIXES[i])
               /\ y = Tagged(<<"-">> \o SUFFIXES[i] \o <<"0">>)) => res.eq = True

\* C4 witness: 1.2.3.4-beta was compared with 1.2.3.4-beta0 and found equal
C4_Witness ==
    /\ Compared
    /\ x = Tagged(<<"-","b","e","t","a">>)
    /\ y = Tagged(<<"-","b","e","t","a","0">>)
    /\ res.eq = True

\* digits separated by dots
PlainDotted(s) == s # <<>> /\ \A i \in 1..Len(s) : s[i] \in Digit \cup {"."}

\* C8: when the left operand is written as a known upstream release name and the
\* right one as a plain dotted version, v1 < v2 is the component comparison of
\* the name's mapped downstream version with the dotted version.
C8_UpstreamNameIsTranslated ==
    \A i \in 1..Len(UPSTREAM_DOWNSTREAM_MAPPING) :
        (/\ res.op = "compare"
         /\ x = Str(UPSTREAM_DOWNSTREAM_MAPPING[i].name)
         /\ y.k = "str" /\ PlainDotted(y.s)) =>
            res.lt = VersionListLt(parse(Str(UPSTREAM_DOWNSTREAM_MAPPING[i].version), 0).version,
                                   RightVersion.version)

(***************************************************************************)
(* Properties of the singletons                                            *)
(***************************************************************************)
\* C5: each sentinel is constructed at most once; Version.latest() returns the
\* object LATEST, Version.lowest() returns the object LOWEST, get_version of a
\* string that starts with 'master' returns the object LATEST, and get_version
\* of a Version returns its argument.
C5_SentinelsAreSingletons ==
    /\ made.latest <= 1 /\ made.lowest <= 1
    /\ pc = "ready" =>
        /\ res.op = "latest" => (res.ret = LATEST /\ res.ret.k = "Version")
        /\ res.op = "lowest" => (res.ret = LOWEST /\ res.ret.k = "Version")
        /\ (res.op = "get_version" /\ res.arg.k = "str" /\ StartsAt(res.arg.s, 1, s_master)) =>
                (res.ret = LATEST /\ res.ret.k = "Version")
        /\ (res.op = "get_version" /\ res.arg.k = "Version") => res.ret = res.arg

\* C5 witness: after other Versions were constructed, get_version('master-alpha')
\* returned the object LATEST
C5_Witness ==
    /\ pc = "ready"
    /\ nobj > 3
    /\ res.op = "get_version"
    /\ res.arg = Str(s_master \o <<"-","a","l","p","h","a">>)
    /\ res.ret = LATEST
    /\ made = [lowest |-> 1, latest |-> 1]

(***************************************************************************)
(* Properties of one release line                                          *)
(***************************************************************************)
\* the number of b1, b2, b3 that are true
CountTrue(b1, b2, b3) == (IF b1 THEN 1 ELSE 0) + (IF b2 THEN 1 ELSE 0) + (IF b3 THEN 1 ELSE 0)

\* C2: over the versions of one release line, no comparison raises, exactly one
\* of a < b, a == b, b < a holds, a < a never holds, a < b and b < c imply
\* a < c; and the descending sort of the test's list, started in any rotation,
\* is the expected list.
C2_StrictTotalOrder ==
    /\ res.op = "order" =>
        /\ \A f \in {"xy", "yx", "yz", "xz", "xx", "eq"} : res[f] \in {True, False}
        /\ CountTrue(res.xy.b, res.eq.b, res.yx.b) = 1
        /\ res.xx = False
        /\ (res.xy = True /\ res.yz = True) => res.xz = True
    /\ res.op = "sorted" =>
        /\ res.exc = ""
        /\ res.ret = reverse_sorted_version
        /\ res.passed

\* C2 witness: a chain a < b < c of the release line with a pre-release and its
\* release in it
C2_Witness ==
    /\ res.op = "order"
    /\ res.xy = True /\ res.yz = True /\ res.xz = True
    /\ v.x.suffix # NoSuffix /\ v.y.suffix = NoSuffix
    /\ v.x.version = v.y.version

(***************************************************************************)
(* Properties of series membership and stream lookup                       *)
(***************************************************************************)
\* a sentinel: a Version whose version string is 'lowest' or, after the aliases
\* of parsing, 'master'
IsSentinel(a) == a.vstring \in {<<"l","o","w","e","s","t">>, s_master}

\* the components of a, truncated to n of them
Truncated(a, n) == SubSeq(a.version, 1, IF n < Len(a.version) THEN n ELSE Len(a.version))

\* the stated rule of membership
Member(candidate, series) ==
    IF IsSentinel(candidate) THEN eq_versions(series, candidate).b
    ELSE series.version = Truncated(candidate, Len(series.version))

\* the series a value stands for: a string that starts with 'master' is LATEST
SeriesOf(s) ==
    IF s.k = "Version" THEN s
    ELSE IF StartsAt(s.s, 1, s_master) THEN LATEST
    ELSE parse(s, 0)

\* what  ver in s  is said to give for a Version s
MemberOrFalse(ver, s) ==
    IF parse(ver, 0).k = "raise" THEN False ELSE Bool(Member(parse(ver, 0), s))

\* C6 (amended): candidate.is_in_series(series) is true exactly when the
\* components of series equal those of candidate truncated to the length of
\* series, except for a candidate whose version string is 'lowest' or 'master':
\* then exactly when series == candidate. A series that is no Version stands for
\* LATEST when it is a string that starts with 'master' and is parsed otherwise;
\* ver in s, for a Version s, is Version(ver).is_in_series(s), and False when
\* ver cannot be parsed.
C6_SeriesMembership ==
    /\ res.op = "is_in_series" => res.ret = Bool(Member(v.x, SeriesOf(res.series)))
    /\ res.op = "contains" => res.ret = MemberOrFalse(res.ver, v.y)

\* C6 witness: the candidate LATEST was asked about the series 'master-alpha'
C6_Witness ==
    /\ res.op = "is_in_series"
    /\ v.x = LATEST
    /\ res.series = Str(s_master \o <<"-","a","l","p","h","a">>)
    /\ res.ret = True

\* C6 as stated: a string series is parsed first, so is_in_series of a string
\* is the rule of membership applied to the Version parsed from it.
C6_StringSeriesIsParsed ==
    /\ res.op = "is_in_series" => res.ret = Bool(Member(v.x, Coerce(res.series)))
    /\ res.op = "contains" => res.ret = MemberOrFalse(res.ver, v.y)

\* the items of the table whose key a is in the series of
KeyMatches(a, i) == is_in_series(a, version_stream_product_mapping[i].key).b

\* the first item whose key matches, 0 when none does
FirstMatch(a) ==
    IF \A i \in 1..Len(version_stream_product_mapping) : ~KeyMatches(a, i) THEN 0
    ELSE CHOOSE i \in 1..Len(version_stream_product_mapping) :
            KeyMatches(a, i) /\ \A j \in 1..(i - 1) : ~KeyMatches(a, j)

\* the item whose key is the string key
ItemOfKey(key) ==
    CHOOSE i \in 1..Len(version_stream_product_mapping) :
        version_stream_product_mapping[i].key = Str(key)

\* a starts with the components 5, n
IsMinor(a, n) == Len(a.version) >= 2 /\ a.version[1] = IntC(5) /\ a.version[2] = IntC(n)

\* C7: stream() and product_version() return the stream id and the product
\* version of the first item, in table order, whose key the version is in the
\* series of, and None when there is none; a version 5.N... with a key '5.N'
\* (N from 2 to 10) gets 'downstream-5Nz' and the product version of that key.
C7_FirstMatchingEntry ==
    /\ res.op = "stream" =>
        /\ FirstMatch(v.x) = 0 => res.ret = None
        /\ FirstMatch(v.x) # 0 =>
                res.ret = Str(version_stream_product_mapping[FirstMatch(v.x)].stream)
        /\ \A n \in 2..10 : IsMinor(v.x, n) =>
                res.ret = Str(<<"d","o","w","n","s","t","r","e","a","m","-","5">>
                              \o Digits(n) \o <<"z">>)
    /\ res.op = "product_version" =>
        /\ FirstMatch(v.x) = 0 => res.ret = None
        /\ FirstMatch(v.x) # 0 =>
                res.ret = Str(version_stream_product_mapping[FirstMatch(v.x)].product_version)
        /\ \A n \in 2..10 : IsMinor(v.x, n) =>
                res.ret = Str(version_stream_product_mapping[ItemOfKey(<<"5", ".">> \o Digits(n))].product_version)

\* C7 witness: stream() of 5.10.1.2 gave 'downstream-510z'
C7_Witness ==
    /\ res.op = "stream"
    /\ x = Str(<<"5",".","1","0",".","1",".","2">>)
    /\ res.ret = Str(<<"d","o","w","n","s","t","r","e","a","m","-","5","1","0","z">>)

(***************************************************************************)
(* Properties of template resolution                                       *)
(***************************************************************************)
\* parse_template has returned or raised
Resolved == res.op = "parse_template"

\* a record of a stream of the table, with a date
IsStreamRecord(r) ==
    /\ r.stream = TRUE
    /\ \E i \in 1..Len(version_stream_product_mapping) :
          r.group_name = version_stream_product_mapping[i].stream
    /\ date(r.datestamp.year, r.datestamp.month, r.datestamp.day).exc = ""

\* a record of a generic matcher
IsGenericRecord(r) ==
    /\ r.stream = FALSE
    /\ \E i \in 1..Len(generic_matchers) : r.group_name = generic_matchers[i].group_name
    /\ r.datestamp = NoDate
    /\ r.version = None

\* the 'unknown' record
IsUnknownRecord(r) == r = TemplateInfo(<<"u","n","k","n","o","w","n">>, NoDate, FALSE, None)

\* some regex of the table matches the name
SomeMatch(s) == \E i \in 1..Len(Candidates) : Match(Candidates[i].regex, s).ok

ValidDate(groups, today_) ==
    /\ groups.ok
    /\ date(year_of(groups, today_), int(groups.month), int(groups.day)).exc = ""

RECURSIVE FirstValid(_, _, _)
\* the first of the candidates whose regex matches with a calendar date, in a
\* sequence that is empty when there is none
FirstValid(s, today_, candidates) ==
    IF candidates = <<>> THEN <<>>
    ELSE IF ValidDate(Match(Head(candidates).regex, s), today_) THEN <<Head(candidates)>>
    ELSE FirstValid(s, today_, Tail(candidates))

\* r is the structured record of the candidates c, when there is one, and no
\* structured record when there is none
ComesFrom(r, c, s) ==
    IF c = <<>> THEN r.exc = "" /\ r.stream = FALSE
    ELSE /\ r.exc = ""
         /\ r.stream = TRUE
         /\ r.group_name = c[1].stream
         /\ r.version = dot_version(c[1].stream, Match(c[1].regex, s).ver)

\* C10: the record parse_template returns comes from the first candidate, in
\* the order of the table and of the lists of its entries, whose regex matches
\* at the start of the name and whose year, month and day (the year of today
\* when the regex took none) are a calendar date; candidates with a date that
\* is none are passed over.
C10_FirstValidCandidateWins ==
    Resolved => ComesFrom(res.ret, FirstValid(x.s, today, Candidates), x.s)

\* the regex matches and lines 456-460 get a date from its groups
Accepted(groups, today_) == groups.ok /\ template_date(groups, today_).exc = ""

RECURSIVE Producer(_, _, _)
\* the candidate whose regex produced the structured record, in a sequence
\* that is empty when there is none
Producer(s, today_, candidates) ==
    IF candidates = <<>> THEN <<>>
    ELSE IF Accepted(Match(Head(candidates).regex, s), today_) THEN <<Head(candidates)>>
    ELSE Producer(s, today_, Tail(candidates))

\* the digits of a minor version in a packed token of the stream
MinorDigits(stream_) ==
    IF stream_ = <<"d","o","w","n","s","t","r","e","a","m","-","5","1","0","z">> THEN 2 ELSE 1

\* major.minor.patch.build of a packed token with minor of w digits
PackedDotted(token, w) ==
    <<token[1]>> \o <<".">> \o SubSeq(token, 2, 1 + w) \o <<".">> \o <<token[2 + w]>>
    \o <<".">> \o SubSeq(token, 3 + w, Len(token))

\* the version field the token of a candidate of the stream is to give
RepairedVersion(stream_, token) ==
    IF /\ Contains(stream_, s_downstream)
       /\ token.k = "str"
       /\ ~Contains(token.s, <<".">>)
       /\ Len(token.s) > 3
    THEN Str(PackedDotted(token.s, MinorDigits(stream_)))
    ELSE token

\* the record r has the version the token of the candidates c is to give
HasRepairedVersion(r, c, s) ==
    c # <<>> /\ r.version = RepairedVersion(c[1].stream, Match(c[1].regex, s).ver)

\* C11: the version of a structured record of a downstream stream is the
\* dotted form major.minor.patch.build of the token of the name when the token
\* has no dot and more than 3 characters, with a minor of two digits for 5.10
\* and of one digit otherwise; a token of at most 3 characters, and the token
\* of an upstream stream, is the version as it stands.
C11_PackedTokenIsDotted ==
    (Resolved /\ res.ret.stream) =>
        HasRepairedVersion(res.ret, Producer(x.s, today, Candidates), x.s)

\* head, 5.N.P.B with N, P and B ending at e1, e2 and e3, a build type or
\* none, and eight digits to the end of the name
DottedAt(s, head, e1, e2, e3) ==
    IF /\ StartsAt(s, 1, head \o <<"5", ".">>)
       /\ e1 >= Len(head) + 3 /\ StartsAt(s, e1 + 1, <<".">>)
       /\ e2 >= e1 + 2 /\ StartsAt(s, e2 + 1, <<".">>)
       /\ e3 >= e2 + 2 /\ StartsAt(s, e3 + 1, <<"-">>)
       /\ Len(s) - 7 >= e3 + 2
       /\ DigitsAt(s, Len(s) - 7) = 8
       /\ \/ Len(s) - 7 = e3 + 2
          \/ /\ head = <<"c","f","m","e","-">>
             /\ Len(s) - 7 >= e3 + 4
             /\ s[Len(s) - 8] = "-"
             /\ \A k \in (e3 + 2)..(Len(s) - 9) : s[k] \in WordChar
    THEN [ok |-> TRUE, minor |-> SubSeq(s, Len(head) + 3, e1),
          ver |-> SubSeq(s, Len(head) + 1, e3),
          type |-> IF Len(s) - 7 = e3 + 2 THEN None ELSE Str(SubSeq(s, e3 + 2, Len(s) - 9)),
          date |-> date(int(SubSeq(s, Len(s) - 7, Len(s) - 4)),
                        int(SubSeq(s, Len(s) - 3, Len(s) - 2)),
                        int(SubSeq(s, Len(s) - 1, Len(s))))]
    ELSE [ok |-> FALSE]

DottedFrom(s, head, e1, e2) == DottedAt(s, head, e1, e2, RunEnd(s, e2 + 2, Digit))

DottedAfter(s, head, e1) == DottedFrom(s, head, e1, RunEnd(s, e1 + 2, Digit))

\* the parts of a name <head>5.N.P.B-YYYYMMDD or <head>5.N.P.B-<type>-YYYYMMDD
DottedName(s, head) == DottedAfter(s, head, RunEnd(s, Len(head) + 3, Digit))

\* the parts of s as a cfme or a docker name of that form
DottedParts(s) ==
    IF DottedName(s, <<"c","f","m","e","-">>).ok THEN DottedName(s, <<"c","f","m","e","-">>)
    ELSE DottedName(s, <<"d","o","c","k","e","r","-">>)

\* the minor versions of the downstream streams of the table
TableMinors ==
    {<<"2">>, <<"3">>, <<"4">>, <<"5">>, <<"6">>, <<"7">>, <<"8">>, <<"9">>, <<"1","0">>}

\* the name with parts n is of a stream of the table, with a date that is not
\* after today_
DottedCase(n, today_) ==
    /\ n.ok
    /\ n.minor \in TableMinors
    /\ n.date.exc = ""
    /\ ~DateGt(n.date, today_)

\* r is the structured record of the name with parts n
DottedRecord(r, n) ==
    /\ r.exc = ""
    /\ r.stream = TRUE
    /\ r.group_name = <<"d","o","w","n","s","t","r","e","a","m","-","5">> \o n.minor \o <<"z">>
    /\ r.datestamp = [year |-> n.date.year, month |-> n.date.month, day |-> n.date.day]
    /\ r.version = Str(n.ver)
    /\ "type" \in DOMAIN r
    /\ r.type = n.type

\* C12: a name cfme-5.N.P.B-YYYYMMDD, cfme-5.N.P.B-<type>-YYYYMMDD or
\* docker-5.N.P.B-YYYYMMDD of a downstream stream 5.N of the table, with a
\* date that is not after today, is resolved to the structured record of
\* 'downstream-5Nz' with that date, the version 5.N.P.B as it is written in
\* the name, and the build type of the name or none.
C12_DottedNamesAreResolved ==
    (Resolved /\ DottedCase(DottedParts(x.s), today)) => DottedRecord(res.ret, DottedParts(x.s))

\* the date of the groups with their two-digit year read as a year of this
\* century
CenturyDate(groups) == date(2000 + int(groups.year), int(groups.month), int(groups.day))

\* the groups have a two-digit year, and the date of this century is a date
\* that is not after today_
ShortYearCase(groups, today_) ==
    /\ Len(groups.year) = 2
    /\ CenturyDate(groups).exc = ""
    /\ ~DateGt(CenturyDate(groups), today_)

\* the datestamp of r is the date d
HasDatestamp(r, d) == r.datestamp = [year |-> d.year, month |-> d.month, day |-> d.day]

\* the record r of the candidates c reads a two-digit year as one of this century
ReadsShortYear(r, c, s, today_) ==
    /\ c # <<>>
    /\ ShortYearCase(Match(c[1].regex, s), today_)
           => HasDatestamp(r, CenturyDate(Match(c[1].regex, s)))

\* C13: when the regex that produced a structured record took a two-digit
\* year yy, the datestamp of the record has the year 2000 + yy and the month
\* and day of the name (when that date is not after today, so that no
\* correction of a date in the future applies).
C13_TwoDigitYearIsThisCentury ==
    (Resolved /\ res.ret.stream) =>
        ReadsShortYear(res.ret, Producer(x.s, today, Candidates), x.s, today)

(***************************************************************************)
(* Properties of futurecheck                                               *)
(***************************************************************************)
\* futurecheck has returned or raised
Corrected == res.op = "futurecheck"

\* the date of the year after that of d, with its month and day, as a triple
\* that need not be a date
YearAfter(d) == [year |-> d.year + 1, month |-> d.month, day |-> d.day]

\* r is what the correction of d is to be on the day today_
IsCorrectionOf(r, d, today_) ==
    /\ r.exc = ""
    /\ ~DateGt(r, today_)
    /\ r.month = d.month /\ r.day = d.day
    /\ ~DateGt(d, today_) => r = d
    /\ DateGt(d, today_) => (r.year < d.year /\ DateGt(YearAfter(r), today_))

\* C14: futurecheck returns for every date d, on every day, a date that is
\* not after today and has the month and day of d: d itself when d is not
\* after today, and otherwise the date of the greatest year below that of d
\* that is not after today; so the correction of a corrected date is that date.
C14_NeverInTheFuture ==
    Corrected => IsCorrectionOf(res.ret, res.arg, today)

(***************************************************************************)
(* Properties of the records of template resolution                        *)
(***************************************************************************)
\* the name starts with one of the prefixes
HasPrefix(s, prefixes) == \E p \in prefixes : StartsAt(s, 1, p)

\* the group name of a name that no stream regex resolves
GenericGroup(s) ==
    IF HasPrefix(s, {<<"s","_","t","p","l">>, <<"s","-","t","p","l">>,
                     <<"s","_","a","p","p","l">>, <<"s","-","a","p","p","l">>,
                     <<"s","p","r","o","u","t","_","t","e","m","p","l","a","t","e">>})
    THEN s_sprout
    ELSE IF HasPrefix(s, {<<"r","a","w">>})
         THEN <<"r","h","e","v","m","-","i","n","t","e","r","n","a","l">>
    ELSE <<"u","n","k","n","o","w","n">>

\* r is structured exactly when the candidates c hold the regex that produced
\* it, and is the record of the generic group of s when they hold none
FlagAndFallback(r, c, s) ==
    /\ r.stream <=> (c # <<>>)
    /\ c # <<>> => r.group_name = c[1].stream
    /\ c = <<>> => r = TemplateInfo(GenericGroup(s), NoDate, FALSE, None)

RightFails == Right.k # "Version" /\ RightVersion.k = "raise"

\* the right operand is a string that Version(other) takes
RightParses == Right.k = "str" /\ RightVersion.k = "Version"

\* the Version a caller constructs from the right operand
RightConstructed == parse(y, nobj + 1)

\* C16: with a right operand that is no Version and that Version() does not
\* take (None), v == x is False and raises nothing, and v < x raises; with a
\* right operand that is a string Version() takes, v == x and v < x are what
\* they are with the Version constructed from the string.
C16_PermissiveEqualityStrictOrdering ==
    res.op = "compare" =>
        /\ RightFails => (res.eq = False /\ res.lt.k = "raise")
        /\ RightParses =>
              /\ res.eq = eq_versions(v.x, RightConstructed)
              /\ res.lt = lt_versions(v.x, RightConstructed, LATEST, LOWEST)

\* a Version has been compared with None
C16_Witness ==
    /\ res.op = "compare"
    /\ y = None
    /\ RightFails
    /\ res.eq = False
    /\ res.lt = Raise("ValueError")

\* a is none of the two sentinels
NoSentinel(a) == ~IsLatest(a) /\ ~IsLowest(a)

\* the components of a and b differ first where one is a number and the other
\* a word
MixedAtFirstDifference(a, b) ==
    /\ Differ(a.version, b.version) # {}
    /\ a.version[Min(Differ(a.version, b.version))].t
         # b.version[Min(Differ(a.version, b.version))].t

\* C17: for two Versions that are no sentinels and whose components differ
\* first where one has a number and the other a word, a < b and b < a raise
\* TypeError, and a == b is False and raises nothing.
C17_NumberAgainstWordRaises ==
    (/\ Compared
     /\ NoSentinel(v.x) /\ NoSentinel(RightVersion)
     /\ MixedAtFirstDifference(v.x, RightVersion))
    => (/\ res.lt = Raise("TypeError")
        /\ ReverseIs(Raise("TypeError"))
        /\ res.eq = False)

\* 5.7.1 has been compared with 5.7a
C17_Witness ==
    /\ Compared
    /\ x = Str(<<"5",".","7",".","1">>)
    /\ y = Str(<<"5",".","7","a">>)
    /\ res.lt = Raise("TypeError")
    /\ res.eq = False

\* the index of the last "-" of s, 0 when there is none
LastDash(s) == Max({0} \cup {i \in 1..Len(s) : s[i] = "-"})

\* s without its last "-" and what follows it
Base(s) == IF LastDash(s) = 0 THEN s ELSE SubSeq(s, 1, LastDash(s) - 1)

\* the letters that follow the last "-" of s
TagWord(s) == Slice(s, LastDash(s) + 1, RunEnd(s, LastDash(s) + 1, Lower))

\* s ends with a tag of letters and digits whose letters are no known suffix
UnknownTagged(s) ==
    /\ LastDash(s) > 1
    /\ TagWord(s) # <<>>
    /\ \A i \in 1..Len(SUFFIXES) : TagWord(s) # SUFFIXES[i]
    /\ RunEnd(s, LastDash(s) + 1 + Len(TagWord(s)), Digit) = Len(s)

\* C18: a Version of a string that ends with a tag whose prefix is none of
\* nightly, pre, alpha, beta, rc (as 1.2.3-foo1), compared with a version of
\* the same components (as 1.2.3 or 1.2.3-beta1), gives an error and no result.
C18_UnknownSuffixIsAnError ==
    (/\ res.op = "compare"
     /\ x.k = "str" /\ UnknownTagged(x.s)
     /\ y.k = "str" /\ Base(y.s) = Base(x.s))
    => res.lt.k = "raise"

(***************************************************************************)
(* Properties of the stream of LATEST                                      *)
(***************************************************************************)
\* the left Version is LATEST, or is parsed from master, latest or upstream
LeftIsLatest ==
    \/ v.x = LATEST
    \/ x.k = "str" /\ x.s \in {s_master, <<"l","a","t","e","s","t">>, s_upstream}

\* C19: stream() of LATEST, and of every Version parsed from 'master',
\* 'latest' or 'upstream', returns 'upstream', the stream id of the item whose
\* key is LATEST, and not the stream id of a named upstream release.
C19_LatestStreamIsUpstream ==
    (res.op = "stream" /\ LeftIsLatest) => res.ret = Str(s_upstream)

====
